---- MODULE Spec2Model ----
(***************************************************************************)
(* Model of the editor hooks of dhaamma_pages_web.                         *)
(*                                                                         *)
(* Spec models the debounced editor hook (src/unnamed/part_004): the       *)
(* editor document, the debounced saveContent, trackImagesAndCleanup (the  *)
(* orphan sweep), handlePaste with its background upload, and the effect   *)
(* that writes page.content back into the editor.  The persistence         *)
(* service (Firestore document, Storage objects) is modelled by what the   *)
(* calls in src/client/src/lib/firebase.ts do to it.                       *)
(*                                                                         *)
(* SpecPanel models handlePaste of the EditorPanel component on the editor *)
(* of that hook.  SpecExtract applies the reference extractors             *)
(* (extractImagePaths, extractImages) to content trees.                    *)
(*                                                                         *)
(* SpecTeardown is Spec with the unmounting of the component.  SpecEditor  *)
(* models the hook with the Save button (useEditor.tsx): saveContent, the  *)
(* save status and its timeouts, the auto save.  SpecPage writes a content *)
(* with updatePage and opens it with getPage and loadPage, JSON texts      *)
(* being token sequences.  SpecRender applies tiptapToHtml (part_001) and  *)
(* SpecPreview applies getPreviewText (PageCard.tsx) to contents.          *)
(* SpecPageFair is SpecPage with the fairness of its effects.              *)
(*                                                                         *)
(* SpecPages models the effect of usePages.tsx that keeps the list of      *)
(* pages, SpecPaste the paste handler with overlapping uploads, and        *)
(* SpecToolbar the image button of the toolbar (handleImageUpload).        *)
(***************************************************************************)
EXTENDS Integers, Sequences, FiniteSets, TLC

(***************************************************************************)
(* Bounds of the model.                                                    *)
(***************************************************************************)
MaxNodes == 2
MaxUploads == 1
MaxSaves == 2
MaxEdits == 2

(***************************************************************************)
(* Program constants.  Time is counted in units of 1000 ms.                *)
(***************************************************************************)
DebounceDelay == 1

(***************************************************************************)
(* URLs.  A URL is a record of the parts the code inspects:                *)
(*   scheme  "https", "blob"                                               *)
(*   host    the host name                                                 *)
(*   obj     the object encoded after "/o/" in the path (0: none)          *)
(*   token   whether the query holds "token="                              *)
(*   id      the uuid of a blob URL (0 otherwise)                          *)
(***************************************************************************)
StorageHost == "firebasestorage.googleapis.com"
HostingHost == "app.firebaseapp.com"
OtherHost == "example.com"

NoPath == 0

DownloadUrl(k) ==
  [scheme |-> "https", host |-> StorageHost, obj |-> k, token |-> TRUE, id |-> 0]
BlobUrl(k) ==
  [scheme |-> "blob", host |-> HostingHost, obj |-> NoPath, token |-> FALSE, id |-> k]
\* an image served by Firebase Hosting with a token in its query: no "/o/" path
HostedUrl ==
  [scheme |-> "https", host |-> HostingHost, obj |-> NoPath, token |-> TRUE, id |-> 0]
\* a bare storage path, users/{uid}/images/{name}
BarePath(k) ==
  [scheme |-> "path", host |-> "none", obj |-> k, token |-> FALSE, id |-> 0]
\* an image of another site
ExternalUrl ==
  [scheme |-> "https", host |-> OtherHost, obj |-> NoPath, token |-> FALSE, id |-> 0]
\* the object {url, path} that uploadImage resolves to, where a string is meant
UploadResult(k) ==
  [scheme |-> "object", host |-> StorageHost, obj |-> k, token |-> TRUE, id |-> 0]
NoUrl ==
  [scheme |-> "none", host |-> "none", obj |-> NoPath, token |-> FALSE, id |-> 0]
\* a download URL that lost its "https://": a string that new URL() rejects
SchemelessUrl(k) ==
  [scheme |-> "none", host |-> StorageHost, obj |-> k, token |-> TRUE, id |-> 0]

\* every string is taken for a URL
ParsesAsUrlMut(url) == TRUE
\* new URL(src) returns: the string is an absolute URL
ParsesAsUrl(url) == url.scheme \in {"https", "blob"}

\* src.includes('firebasestorage.googleapis.com')
IncludesStorageHost(url) == url.host = StorageHost
\* src.includes('firebase')
IncludesFirebase(url) == url.host \in {StorageHost, HostingHost}
\* src.includes('token=')
IncludesToken(url) == url.token

\* the filter of extractImages: only Firebase storage URLs are tracked
IsFirebaseUrl(url) ==
  IncludesStorageHost(url) \/ (IncludesFirebase(url) /\ IncludesToken(url))

\* urlObj.pathname.match(/\/o\/(.+?)(\?|$)/), decoded; null (NoPath) without a
\* match and when new URL(url) throws into the catch
extractStoragePathFromUrl(url) ==
  IF ~IsFirebaseUrl(url) \/ ~ParsesAsUrl(url) THEN NoPath
  ELSE url.obj

(***************************************************************************)
(* Content nodes.  The document is the sequence of the doc node's          *)
(* children; a node carries the attributes of the Image extension:         *)
(*   src          src                                                      *)
(*   temp         data-temp                                                *)
(*   loading      data-loading                                             *)
(*   uploadId     data-upload-id                                           *)
(*   tempUrl      data-temp-url (the uuid of the object URL)               *)
(*   storagePath  data-storage-path (a bare path, or what was put there)   *)
(***************************************************************************)
NoUpload == 0
\* the values of the data-temp attribute: absent, 'true', 'false'
NoTemp == "none"
\* JavaScript truthiness of an attribute value
Truthy(attr) == attr # NoTemp

Paragraph ==
  [type |-> "paragraph", src |-> NoUrl, temp |-> NoTemp, uploadId |-> NoUpload,
   storagePath |-> NoUrl, loading |-> NoTemp, tempUrl |-> NoUpload,
   content |-> <<>>]
ImageNode(url, temp, uploadId, path) ==
  [type |-> "image", src |-> url, temp |-> temp, uploadId |-> uploadId,
   storagePath |-> path, loading |-> NoTemp, tempUrl |-> NoUpload,
   content |-> <<>>]
\* the temporary image node of handlePaste
Placeholder(k) == ImageNode(BlobUrl(k), "true", k, NoUrl)
\* the node after setNodeMarkup with the permanent URL
Uploaded(k) == ImageNode(DownloadUrl(k), NoTemp, NoUpload, BarePath(k))
\* an image inserted by URL (pasted HTML, setImage)
Linked(url) == ImageNode(url, NoTemp, NoUpload, NoUrl)

Range(s) == {s[i] : i \in 1..Len(s)}
InsertAt(s, pos, x) == SubSeq(s, 1, pos) \o <<x>> \o SubSeq(s, pos + 1, Len(s))
RemoveAt(s, i) == SubSeq(s, 1, i - 1) \o SubSeq(s, i + 1, Len(s))
ReplaceAt(s, i, x) == [s EXCEPT ![i] = x]

\* Set.add in traversal order: a sequence without repetitions
RECURSIVE AddAll(_, _)
AddAll(acc, s) ==
  IF s = <<>> THEN acc
  ELSE AddAll(IF Head(s) \in Range(acc) THEN acc ELSE Append(acc, Head(s)), Tail(s))

\* the nodes of a forest in the order of node.content.forEach(...), parents first
RECURSIVE Descendants(_)
Descendants(nodes) ==
  IF nodes = <<>> THEN <<>>
  ELSE <<Head(nodes)>> \o Descendants(Head(nodes).content) \o Descendants(Tail(nodes))

\* extractImages of trackImagesAndCleanup: the src of every image that is not
\* temporary and whose src is a Firebase storage URL
TrackedNode(node) ==
  /\ node.type = "image" /\ node.src # NoUrl /\ ~Truthy(node.temp)
  /\ IsFirebaseUrl(node.src)
extractImages(content) ==
  LET kept == SelectSeq(Descendants(content), TrackedNode)
  IN  AddAll(<<>>, [i \in 1..Len(kept) |-> kept[i].src])

\* the src is pushed as it is, whatever it is
PushedMut(node) == IF node.type = "image" /\ node.src # NoUrl THEN <<node.src>> ELSE <<>>

\* traverse of extractImagePaths: what a node pushes to paths.  The decoded
\* object path of a storage URL is the bare path of that object.
Pushed(node) ==
  IF ~(node.type = "image" /\ node.src # NoUrl) THEN <<>>
  ELSE IF IncludesStorageHost(node.src)
       THEN IF ParsesAsUrl(node.src) /\ node.src.obj # NoPath
            THEN <<BarePath(node.src.obj)>> ELSE <<>>
  ELSE IF node.src.scheme = "path" THEN <<node.src>>
  ELSE IF node.src.scheme = "https" THEN <<node.src>>
  ELSE <<>>
RECURSIVE PushedAll(_)
PushedAll(nodes) ==
  IF nodes = <<>> THEN <<>> ELSE Pushed(Head(nodes)) \o PushedAll(Tail(nodes))
\* Array.from(new Set(paths))
extractImagePaths(content) == AddAll(<<>>, PushedAll(Descendants(content)))

\* the filter left out: every previous image counts as deleted
deletedImagesMut(previous, current) == previous
\* Array.from(previousImages.current).filter(url => !currentImages.has(url))
deletedImages(previous, current) ==
  SelectSeq(previous, LAMBDA url : url \notin Range(current))

\* the images of the loop that reach deleteImage: if (storagePath)
Deletable(urls) == SelectSeq(urls, LAMBDA url : extractStoragePathFromUrl(url) # NoPath)

(***************************************************************************)
(* State.                                                                  *)
(***************************************************************************)
VARIABLES
  doc,             \* the editor's document (view.state.doc)
  pageContent,     \* page.content of the hook's state
  previousImages,  \* previousImages.current
  timeouts,        \* the pending timeouts of debounce(saveContent, 1000)
  syncTimer,       \* the 50 ms timeout of the page.content effect
  saves,           \* the saveContent calls in flight
  writeQueue,      \* ids of saves whose updateDoc is in flight, in call order
  nSaves,          \* saveContent calls started
  saving,          \* the saving state
  stored,          \* the content of the page document in Firestore
  objects,         \* the objects present in Firebase Storage
  deleteLog,       \* storage paths ever passed to deleteObject
  uploads,         \* handlePaste uploads in flight
  nUploads,        \* uploads started
  isPasting,       \* the isPasting state
  pendingUploads,  \* keys of pendingUploads.current
  liveBlobs,       \* object URLs created and not revoked
  sinceMutation,   \* time since the last call of the debounced saveContent
  lastTriggered,   \* content of the most recent saveContent call started
  nEdits,          \* user edits so far
  \* history of the run, read by the properties only
  lastMutation,    \* argument of the last call of the debounced saveContent
  mutatedInFlight, \* whether that call was made while a save was in flight
  burstSize,       \* calls of the debounced saveContent since the last expiry
  writesIssued,    \* updateDoc calls so far
  saveFailed,      \* whether an updateDoc or getDoc of a save has failed
  failedDeletes,   \* URLs whose delete failed and that were not in the document since
  resolvedUploads, \* uploads that succeeded
  rejectedUploads, \* uploads that failed
  discarded,       \* uploads that succeeded with no placeholder left, and the
                   \* number of saves started by then
  \* the reference extractors applied to a content tree
  isUploading,     \* the isUploading state of EditorPanel
  panelAttrs,      \* whether the Image extension of the editor passed to
                   \* EditorPanel declares data-loading and data-temp-url
  tree,            \* the children of the doc node passed in
  paths,           \* the result of extractImagePaths
  images,          \* currentImages of extractImages
  \* the lifetime of the editor view
  mounted,         \* whether the component using the hook is mounted
  \* the hook with the Save button (useEditor.tsx)
  saveStatus,      \* the saveStatus state
  hasUnsavedChanges, \* the hasUnsavedChanges state
  statusTimers,    \* the pending timeouts that set saveStatus to 'idle'
  failures,        \* saveContent calls that ended in the catch
  succeeded,       \* of every saveContent call that succeeded: saveStatus at
                   \* its start, the orphans of its sweep and the failed deletes
  \* a page written by updatePage and opened by loadPage
  pc,              \* where the writing and the loading of the page are
  updates,         \* updates.content passed to updatePage
  firestore,       \* the content field of the page document
  pageData,        \* the content of the Page returned by getPage
  page,            \* the content of the page state
  editorContent,   \* the document of the editor, as getJSON() gives it
  contentLoaded,   \* contentLoaded.current
  loading,         \* the loading state
  editorRef,       \* whether editorRef.current holds the editor instance
  \* the printable HTML of a content (tiptapToHtml)
  parsedContent,   \* the content passed to tiptapToHtml
  html,            \* the string tiptapToHtml returns
  \* the preview of a page card (getPreviewText of PageCard.tsx)
  cardContent,     \* page.content of the card
  previewText,     \* the string getPreviewText returns
  readTime,        \* the minutes of the string calculateReadTime returns
  \* the list of pages (usePages.tsx)
  user,            \* the uid of the user signed in (0: none)
  searchTerm,      \* the searchTerm state
  pages,           \* the pages state: of which query it is the result
  searches,        \* the searchPages calls in flight
  subscriptions,   \* the subscriptions not unsubscribed
  listLoading,     \* the loading state of usePages
  searchError,     \* whether a search has failed since the effect ran
  \* the image button of the toolbar (handleImageUpload of Editor.tsx)
  uploading,       \* the uploading state
  selectedFile,    \* files[0] of the file input
  toolbarUpload,   \* the uploadImage call the handler awaits
  toasts,          \* the titles of the toasts the handler has shown
  nSelected,       \* how many files have been selected
  uploadRequests   \* how many times the handler has called uploadImage

hookVars == <<doc, pageContent, previousImages, timeouts, syncTimer, saves, writeQueue,
          nSaves, saving, stored, objects, deleteLog, uploads, nUploads, isPasting,
          pendingUploads, liveBlobs, sinceMutation, lastTriggered, nEdits,
          lastMutation, mutatedInFlight, burstSize, writesIssued, saveFailed, failedDeletes,
          resolvedUploads, rejectedUploads, discarded>>

extractVars == <<tree, paths, images>>
panelVars == <<isUploading, panelAttrs>>
viewVars == <<mounted>>
editorVars == <<saveStatus, hasUnsavedChanges, statusTimers, failures, succeeded>>
pageVars == <<pc, updates, firestore, pageData, page, editorContent, contentLoaded,
              loading, editorRef>>
renderVars == <<parsedContent, html>>
previewVars == <<cardContent, previewText, readTime>>
pagesVars == <<user, searchTerm, pages, searches, subscriptions, listLoading,
               searchError>>
toolbarVars == <<uploading, selectedFile, toolbarUpload, toasts, nSelected, uploadRequests>>
uiVars == <<pagesVars, toolbarVars>>
otherVars == <<viewVars, uiVars, editorVars, pageVars, renderVars, previewVars>>
vars == <<hookVars, extractVars, panelVars, otherVars>>

uploadHistory == <<resolvedUploads, rejectedUploads, discarded>>
saveHistory == <<writesIssued, saveFailed>>

NoContent == <<[type |-> "none"]>>
\* updatePage: the content field written is JSON.stringify(content)
JSONStringify(content) == [json |-> content]
NoTimer == [armed |-> FALSE, content |-> <<>>]

\* objects uploaded in earlier sessions
OldObjects == {11, 12}

\* the documents a page can hold when the editor opens
InitialDocs ==
  { <<>>, <<Uploaded(11)>>, <<Uploaded(11), Uploaded(12)>>,
    <<Uploaded(11), Linked(HostedUrl)>> }

\* no result yet: no extractor returns the absent src
NoResult == <<NoUrl>>

\* no extractor call is under study
ExtractIdle == tree = <<>> /\ paths = NoResult /\ images = NoResult

HookInit ==
  /\ doc \in InitialDocs
  /\ pageContent = doc
  /\ previousImages = extractImages(doc)
  /\ timeouts = <<>>
  /\ syncTimer = NoTimer
  /\ saves = {}
  /\ writeQueue = <<>>
  /\ nSaves = 0
  /\ saving = FALSE
  /\ stored = JSONStringify(doc)
  /\ objects = OldObjects
  /\ deleteLog = {}
  /\ uploads = {}
  /\ nUploads = 0
  /\ isPasting = FALSE
  /\ pendingUploads = {}
  /\ liveBlobs = {}
  /\ sinceMutation = DebounceDelay
  /\ lastTriggered = NoContent
  /\ nEdits = 0
  /\ lastMutation = NoContent
  /\ mutatedInFlight = FALSE
  /\ burstSize = 0
  /\ writesIssued = 0
  /\ saveFailed = FALSE
  /\ failedDeletes = {}
  /\ resolvedUploads = {}
  /\ rejectedUploads = {}
  /\ discarded = {}
  /\ isUploading = FALSE

\* the Image extension of the hooks declares src, alt, title, data-temp,
\* data-upload-id and data-storage-path
HookSchema == panelAttrs = FALSE

\* the component is mounted
ViewInit == mounted = TRUE

\* useState(false), useState('idle'): no save has run
EditorInit ==
  /\ saveStatus = "idle"
  /\ hasUnsavedChanges = FALSE
  /\ statusTimers = {}
  /\ failures = 0
  /\ succeeded = {}

\* null
Null == [null |-> TRUE]

\* no page is being written or opened
PageIdle ==
  /\ pc = "idle"
  /\ updates = Null /\ firestore = Null /\ pageData = Null /\ page = Null
  /\ editorContent = Null
  /\ contentLoaded = TRUE
  /\ loading = FALSE
  /\ editorRef = TRUE

\* the state that only the other specifications change
\* nothing is being rendered
RenderIdle == parsedContent = Null /\ html = <<>>
PreviewIdle == cardContent = Null /\ previewText = <<>> /\ readTime = 0

\* usePages after its first effect without a user: setPages([]),
\* setLoading(false)
NoUser == 0
NoPages == [uid |-> NoUser, term |-> ""]
PagesInit ==
  /\ user = NoUser
  /\ searchTerm = ""
  /\ pages = NoPages
  /\ searches = {}
  /\ subscriptions = {}
  /\ listLoading = FALSE
  /\ searchError = FALSE
\* the toolbar before a file has been selected
NoFile == [type |-> <<>>, size |-> -1]
NoToolbarUpload == [pc |-> "idle", id |-> 0]
ToolbarInit ==
  /\ uploading = FALSE
  /\ selectedFile = NoFile
  /\ toolbarUpload = NoToolbarUpload
  /\ toasts = <<>>
  /\ nSelected = 0
  /\ uploadRequests = 0
UiIdle == PagesInit /\ ToolbarInit

OtherIdle ==
  ViewInit /\ UiIdle /\ EditorInit /\ PageIdle /\ RenderIdle /\ PreviewIdle

Init == HookInit /\ ExtractIdle /\ HookSchema /\ OtherIdle

(***************************************************************************)
(* debounce: clearTimeout(timeoutId), then setTimeout(fn(args), delay).    *)
(***************************************************************************)
\* clearTimeout left out: the earlier timeouts stay pending
debounceMut(pending, content) ==
  Append(pending, [content |-> content, left |-> DebounceDelay])
\* the pending timeouts after a call of the debounced function
debounce(pending, content) ==
  <<[content |-> content, left |-> DebounceDelay]>>

\* onUpdate: setPage(content), saveContent(content); the page.content effect
\* re-runs, clears its timeout and finds the editor equal to page.content
OnUpdate(content) ==
  /\ doc' = content
  /\ pageContent' = content
  /\ timeouts' = debounce(timeouts, content)
  /\ syncTimer' = NoTimer
  /\ sinceMutation' = 0
  /\ lastMutation' = content
  /\ mutatedInFlight' = (saves # {})
  /\ burstSize' = IF burstSize < MaxEdits + MaxUploads * 2 THEN burstSize + 1
                  ELSE burstSize
  /\ failedDeletes' = {url \in failedDeletes : \A i \in 1..Len(content) :
                                                 content[i].src # url}

(***************************************************************************)
(* User edits.                                                             *)
(***************************************************************************)
UserEdit(content) ==
  /\ mounted
  /\ nEdits < MaxEdits
  /\ nEdits' = nEdits + 1
  /\ OnUpdate(content)
  /\ UNCHANGED <<previousImages, saves, writeQueue, nSaves, saving, stored, objects,
                 deleteLog, uploads, nUploads, isPasting, pendingUploads, liveBlobs,
                 lastTriggered, saveHistory, uploadHistory, extractVars, panelVars, otherVars>>

\* the user types a paragraph
TypeParagraph ==
  \E pos \in 0..Len(doc) :
    /\ Len(doc) < MaxNodes
    /\ UserEdit(InsertAt(doc, pos, Paragraph))

\* the user deletes a node (Delete / Backspace on a node selection)
DeleteNode ==
  \E i \in 1..Len(doc) : UserEdit(RemoveAt(doc, i))

\* URLs of images the user can insert again (undo, paste of a copied node)
KnownImages == {Uploaded(k) : k \in OldObjects} \cup {Linked(HostedUrl)}

InsertImage ==
  \E pos \in 0..Len(doc), node \in KnownImages :
    /\ Len(doc) < MaxNodes
    /\ UserEdit(InsertAt(doc, pos, node))

(***************************************************************************)
(* Time.  A timeout whose delay has elapsed runs before time advances.     *)
(***************************************************************************)
Tick ==
  /\ \A i \in 1..Len(timeouts) : timeouts[i].left > 0
  /\ ~syncTimer.armed
  /\ \/ timeouts # <<>>
     \/ sinceMutation < DebounceDelay
  /\ timeouts' = [i \in 1..Len(timeouts) |-> [timeouts[i] EXCEPT !.left = @ - 1]]
  /\ sinceMutation' = IF sinceMutation < DebounceDelay THEN sinceMutation + 1
                      ELSE sinceMutation
  /\ UNCHANGED <<doc, pageContent, previousImages, syncTimer, saves, writeQueue, nSaves,
                 saving, stored, objects, deleteLog, uploads, nUploads, isPasting,
                 pendingUploads, liveBlobs, lastTriggered, nEdits, lastMutation, mutatedInFlight,
                 burstSize, failedDeletes, saveHistory, uploadHistory, extractVars, panelVars, otherVars>>

(***************************************************************************)
(* saveContent and trackImagesAndCleanup.                                  *)
(*                                                                         *)
(* A save in flight is a record                                            *)
(*   id, content   the call and its argument                               *)
(*   pc            "delete": awaiting deleteImage of Head(todo)            *)
(*                 "write":  awaiting updateDoc                            *)
(*                 "verify": awaiting the getDoc after the write           *)
(*   current       currentImages of the sweep                              *)
(*   todo          the rest of deletedImages, the head being in flight     *)
(*   previous      previousImages.current as the sweep read it             *)
(*   submitted     the URLs of the sweep passed to deleteImage so far      *)
(***************************************************************************)
\* the sweep up to its first await, or to its end
trackImagesAndCleanup(id, content) ==
  LET current == extractImages(content)
      todo == Deletable(deletedImages(previousImages, current))
  IN  [id |-> id, content |-> content,
       pc |-> IF todo = <<>> THEN "write" ELSE "delete",
       current |-> current, todo |-> todo, previous |-> previousImages,
       submitted |-> IF todo = <<>> THEN {} ELSE {Head(todo)}]

\* a timeout of the debounce fires: saveContent(content) runs to its first await
SaveContent ==
  \E i \in 1..Len(timeouts) :
    /\ timeouts[i].left = 0
    /\ nSaves < MaxSaves
    /\ LET s == trackImagesAndCleanup(nSaves + 1, timeouts[i].content)
       IN  /\ saves' = saves \cup {s}
           /\ deleteLog' = deleteLog \cup
                {extractStoragePathFromUrl(url) : url \in s.submitted}
           /\ previousImages' = IF s.pc = "write" THEN s.current ELSE previousImages
           /\ writeQueue' = IF s.pc = "write" THEN Append(writeQueue, s.id)
                            ELSE writeQueue
           /\ lastTriggered' = s.content
           /\ writesIssued' = IF s.pc = "write" THEN writesIssued + 1 ELSE writesIssued
    /\ timeouts' = RemoveAt(timeouts, i)
    /\ nSaves' = nSaves + 1
    /\ saving' = TRUE
    /\ burstSize' = 0
    /\ UNCHANGED <<doc, pageContent, syncTimer, stored, objects, uploads, nUploads,
                   isPasting, pendingUploads, liveBlobs, sinceMutation, nEdits,
                   lastMutation, mutatedInFlight, saveFailed, failedDeletes, uploadHistory, extractVars, panelVars, otherVars>>

\* deleteImage of the head of todo settles (deleteObject succeeded or failed; the
\* failure is caught and logged); the loop goes on to the next image or ends
DeleteSettles(s, ok) ==
  LET rest == Tail(s.todo)
      done == rest = <<>>
      t == [s EXCEPT !.todo = rest,
                     !.pc = IF done THEN "write" ELSE "delete",
                     !.submitted = IF done THEN @ ELSE @ \cup {Head(rest)}]
  IN  /\ s.pc = "delete"
      /\ objects' = IF ok THEN objects \ {extractStoragePathFromUrl(Head(s.todo))}
                    ELSE objects
      /\ saves' = (saves \ {s}) \cup {t}
      /\ deleteLog' = IF done THEN deleteLog
                      ELSE deleteLog \cup {extractStoragePathFromUrl(Head(rest))}
      /\ previousImages' = IF done THEN s.current ELSE previousImages
      /\ writeQueue' = IF done THEN Append(writeQueue, s.id) ELSE writeQueue
      /\ writesIssued' = IF done THEN writesIssued + 1 ELSE writesIssued
      /\ failedDeletes' = IF ok \/ \E i \in 1..Len(doc) : doc[i].src = Head(s.todo)
                          THEN failedDeletes
                          ELSE failedDeletes \cup {Head(s.todo)}
      /\ UNCHANGED <<doc, pageContent, timeouts, syncTimer, nSaves, saving, stored,
                     uploads, nUploads, isPasting, pendingUploads, liveBlobs,
                     sinceMutation, lastTriggered, nEdits, lastMutation, mutatedInFlight, burstSize,
                     saveFailed, uploadHistory, extractVars, panelVars, otherVars>>

DeleteImageDone == \E s \in saves, ok \in BOOLEAN : DeleteSettles(s, ok)

\* updateDoc of the oldest write settles
WriteSettles(s, ok) ==
  /\ s.pc = "write"
  /\ writeQueue # <<>> /\ Head(writeQueue) = s.id
  /\ writeQueue' = Tail(writeQueue)
  /\ IF ok
     THEN /\ stored' = JSONStringify(s.content)
          /\ saves' = (saves \ {s}) \cup {[s EXCEPT !.pc = "verify"]}
          /\ saving' = saving
          /\ saveFailed' = saveFailed
     ELSE \* catch: console.error; finally: setSaving(false)
          /\ stored' = stored
          /\ saves' = saves \ {s}
          /\ saving' = FALSE
          /\ saveFailed' = TRUE
  /\ UNCHANGED <<doc, pageContent, previousImages, timeouts, syncTimer, nSaves, objects,
                 deleteLog, uploads, nUploads, isPasting, pendingUploads, liveBlobs,
                 sinceMutation, lastTriggered, nEdits, lastMutation, mutatedInFlight, burstSize,
                 writesIssued, failedDeletes, uploadHistory, extractVars, panelVars, otherVars>>

UpdateDocDone == \E s \in saves, ok \in BOOLEAN : WriteSettles(s, ok)

\* the getDoc of updatePage settles; on success saveContent goes on to
\* setPage(content), and the page.content effect schedules setContent when the
\* editor differs from it
VerifySettles(s, ok) ==
  /\ s.pc = "verify"
  /\ saves' = saves \ {s}
  /\ saving' = FALSE
  /\ IF ok
     THEN /\ pageContent' = s.content
          /\ syncTimer' = IF s.content = pageContent THEN syncTimer
                          ELSE IF s.content # doc
                               THEN [armed |-> TRUE, content |-> s.content]
                               ELSE NoTimer
     ELSE UNCHANGED <<pageContent, syncTimer>>
  /\ saveFailed' = (saveFailed \/ ~ok)
  /\ UNCHANGED <<doc, previousImages, timeouts, writeQueue, nSaves, stored, objects,
                 deleteLog, uploads, nUploads, isPasting, pendingUploads, liveBlobs,
                 sinceMutation, lastTriggered, nEdits, lastMutation, mutatedInFlight, burstSize,
                 writesIssued, failedDeletes, uploadHistory, extractVars, panelVars, otherVars>>

GetDocDone == \E s \in saves, ok \in BOOLEAN : VerifySettles(s, ok)

\* the timeout of the page.content effect: editor.commands.setContent(storedContent)
SyncEditor ==
  /\ syncTimer.armed
  /\ mounted
  /\ doc' = syncTimer.content
  /\ syncTimer' = NoTimer
  /\ failedDeletes' = {url \in failedDeletes : \A i \in 1..Len(syncTimer.content) :
                                                 syncTimer.content[i].src # url}
  /\ UNCHANGED <<pageContent, previousImages, timeouts, saves, writeQueue, nSaves,
                 saving, stored, objects, deleteLog, uploads, nUploads, isPasting,
                 pendingUploads, liveBlobs, sinceMutation, lastTriggered, nEdits,
                 lastMutation, mutatedInFlight, burstSize, saveHistory, uploadHistory, extractVars, panelVars, otherVars>>

(***************************************************************************)
(* handlePaste: the temporary image node, then the upload in the           *)
(* background.  An upload in flight is a record                            *)
(*   id    the upload id (data-upload-id), also the uuid of its blob URL   *)
(*   pc    "bytes": awaiting uploadBytes; "url": awaiting getDownloadURL   *)
(***************************************************************************)
\* the positions of the temporary image of upload k: the nodes that show its
\* object URL
Carrying(content, k) == {i \in 1..Len(content) : content[i].src = BlobUrl(k)}

\* doc.descendants(...): the position of the first node carrying the upload id
\* (0: none)
FindUpload(content, k) ==
  IF \E i \in 1..Len(content) : content[i].uploadId = k
  THEN CHOOSE i \in 1..Len(content) :
         /\ content[i].uploadId = k
         /\ \A j \in 1..(i - 1) : content[j].uploadId # k
  ELSE 0

\* setNodeMarkup(pos, undefined, {...node.attrs, src: url, 'data-temp': undefined,
\* 'data-upload-id': undefined, 'data-storage-path': path})
setNodeMarkup(content, i, url, path) ==
  ReplaceAt(content, i, [content[i] EXCEPT !.src = url, !.temp = NoTemp,
                                           !.uploadId = NoUpload,
                                           !.storagePath = path])

Paste(max) ==
  \E pos \in 0..Len(doc) :
    /\ mounted
    /\ nUploads < max
    /\ Len(doc) < MaxNodes
    /\ LET k == nUploads + 1
       IN  /\ OnUpdate(InsertAt(doc, pos, Placeholder(k)))
           /\ uploads' = uploads \cup {[id |-> k, pc |-> "bytes"]}
           /\ pendingUploads' = pendingUploads \cup {k}
           /\ liveBlobs' = liveBlobs \cup {k}
           /\ nUploads' = k
    /\ isPasting' = TRUE
    /\ UNCHANGED <<previousImages, saves, writeQueue, nSaves, saving, stored, objects,
                   deleteLog, lastTriggered, nEdits, saveHistory, uploadHistory, extractVars, panelVars, otherVars>>

HandlePaste == Paste(MaxUploads)

\* finally: setIsPasting(false); URL.revokeObjectURL(tempUrl);
\* pendingUploads.current.delete(uploadId)
UploadFinally(u) ==
  /\ uploads' = uploads \ {u}
  /\ isPasting' = FALSE
  /\ liveBlobs' = liveBlobs \ {u.id}
  /\ pendingUploads' = pendingUploads \ {u.id}

\* try: the temporary image is found in the current document and rewritten; a
\* transaction dispatched to the view of a destroyed editor changes nothing
UploadResolved(u) ==
  LET i == FindUpload(doc, u.id)
  IN  /\ IF i # 0 /\ mounted
         THEN /\ OnUpdate(setNodeMarkup(doc, i, DownloadUrl(u.id), BarePath(u.id)))
              /\ discarded' = discarded
         ELSE /\ UNCHANGED <<doc, pageContent, timeouts, syncTimer, sinceMutation,
                             lastMutation, mutatedInFlight, burstSize, failedDeletes>>
              /\ discarded' = IF i = 0 THEN discarded \cup {[id |-> u.id, at |-> nSaves]}
                              ELSE discarded
      /\ resolvedUploads' = resolvedUploads \cup {u.id}
      /\ rejectedUploads' = rejectedUploads
      /\ UploadFinally(u)

\* catch: the temporary image is found and removed
UploadRejected(u) ==
  LET i == FindUpload(doc, u.id)
  IN  /\ IF i # 0 /\ mounted
         THEN OnUpdate(RemoveAt(doc, i))
         ELSE UNCHANGED <<doc, pageContent, timeouts, syncTimer, sinceMutation,
                         lastMutation, mutatedInFlight, burstSize, failedDeletes>>
      /\ rejectedUploads' = rejectedUploads \cup {u.id}
      /\ UNCHANGED <<resolvedUploads, discarded>>
      /\ UploadFinally(u)

\* uploadBytes settles
UploadBytesDone ==
  \E u \in uploads, ok \in BOOLEAN :
    /\ u.pc = "bytes"
    /\ IF ok
       THEN /\ objects' = objects \cup {u.id}
            /\ uploads' = (uploads \ {u}) \cup {[u EXCEPT !.pc = "url"]}
            /\ UNCHANGED <<doc, pageContent, timeouts, syncTimer, sinceMutation,
                           isPasting, liveBlobs, pendingUploads, lastMutation, mutatedInFlight,
                           burstSize, failedDeletes, uploadHistory>>
       ELSE /\ objects' = objects
            /\ UploadRejected(u)
    /\ UNCHANGED <<previousImages, saves, writeQueue, nSaves, saving, stored, deleteLog,
                   nUploads, lastTriggered, nEdits, saveHistory, extractVars, panelVars, otherVars>>

\* getDownloadURL settles
GetDownloadURLDone ==
  \E u \in uploads, ok \in BOOLEAN :
    /\ u.pc = "url"
    /\ IF ok THEN UploadResolved(u) ELSE UploadRejected(u)
    /\ UNCHANGED <<previousImages, saves, writeQueue, nSaves, saving, stored, objects,
                   deleteLog, nUploads, lastTriggered, nEdits, saveHistory, extractVars, panelVars, otherVars>>

Next ==
  \/ TypeParagraph
  \/ DeleteNode
  \/ InsertImage
  \/ HandlePaste
  \/ UploadBytesDone
  \/ GetDownloadURLDone
  \/ Tick
  \/ SaveContent
  \/ DeleteImageDone
  \/ UpdateDocDone
  \/ GetDocDone
  \/ SyncEditor

Spec == Init /\ [][Next]_vars

(***************************************************************************)
(* Navigating away: the component using the hook unmounts.  The editor is  *)
(* destroyed and the cleanups of the effects run: editorRef.current = null,*)
(* isMounted = false, the timeout of the page.content effect is cleared.   *)
(* Nothing clears the timeout of the debounced saveContent.                *)
(***************************************************************************)
Unmount ==
  /\ mounted
  /\ mounted' = FALSE
  /\ syncTimer' = NoTimer
  /\ UNCHANGED <<doc, pageContent, previousImages, timeouts, saves, writeQueue, nSaves,
                 saving, stored, objects, deleteLog, uploads, nUploads, isPasting,
                 pendingUploads, liveBlobs, sinceMutation, lastTriggered, nEdits,
                 lastMutation, mutatedInFlight, burstSize, failedDeletes, saveHistory,
                 uploadHistory, extractVars, panelVars, uiVars, editorVars, pageVars, renderVars,
                 previewVars>>

NextTeardown ==
  \/ TypeParagraph
  \/ DeleteNode
  \/ InsertImage
  \/ HandlePaste
  \/ UploadBytesDone
  \/ GetDownloadURLDone
  \/ Tick
  \/ SaveContent
  \/ DeleteImageDone
  \/ UpdateDocDone
  \/ GetDocDone
  \/ SyncEditor
  \/ Unmount

\* the page opened holds one uploaded image
InitTeardown == Init /\ doc = <<Uploaded(11)>>

SpecTeardown == InitTeardown /\ [][NextTeardown]_vars

\* C12: after the component has unmounted no timeout starts a save, and an
\* upload that completes changes neither the document nor the state of the
\* hook
C12_TeardownCancels ==
  [][~mounted =>
       /\ nSaves' = nSaves
       /\ uploads' # uploads => doc' = doc /\ isPasting' = isPasting]_vars

(***************************************************************************)
(* handlePaste of EditorPanel, the handler bound to onPaste of the editor  *)
(* content, on the editor passed to the component: the editor of the hook, *)
(* or one whose Image extension declares the attributes the handler uses.  *)
(* An upload in flight is a record                                         *)
(*   id    the uuid of the object URL (data-temp-url)                      *)
(*   pc    "load":   awaiting the onload of the pasted image               *)
(*         "bytes":  awaiting uploadBytes of uploadImage                   *)
(*         "url":    awaiting getDownloadURL of uploadImage                *)
(*         "revoke": awaiting the 1000 ms timeout that revokes the URL     *)
(***************************************************************************)
MaxPanelUploads == 2

\* NodeType.create: a node keeps the attributes its type declares
computeAttrs(node) ==
  IF panelAttrs THEN node
  ELSE [node EXCEPT !.loading = NoTemp, !.tempUrl = NoUpload]

\* the temporary image of EditorPanel as the handler states it
LoadingImage(k) ==
  [ImageNode(BlobUrl(k), "true", NoUpload, NoUrl)
     EXCEPT !.loading = "true", !.tempUrl = k]

\* doc.descendants(...): the first image whose data-temp-url is the object URL
\* (0: none)
FindTempUrl(content, k) ==
  IF \E i \in 1..Len(content) : content[i].tempUrl = k
  THEN CHOOSE i \in 1..Len(content) :
         /\ content[i].tempUrl = k
         /\ \A j \in 1..(i - 1) : content[j].tempUrl # k
  ELSE 0

\* doc.descendants(...): the first image with data-loading === 'true' (0: none)
FindLoading(content) ==
  IF \E i \in 1..Len(content) : content[i].loading = "true"
  THEN CHOOSE i \in 1..Len(content) :
         /\ content[i].loading = "true"
         /\ \A j \in 1..(i - 1) : content[j].loading # "true"
  ELSE 0

\* URL.createObjectURL(file), setIsUploading(true), await imageLoadPromise
PanelPaste ==
  /\ nUploads < MaxPanelUploads
  /\ nUploads' = nUploads + 1
  /\ uploads' = uploads \cup {[id |-> nUploads + 1, pc |-> "load"]}
  /\ liveBlobs' = liveBlobs \cup {nUploads + 1}
  /\ isUploading' = TRUE
  /\ UNCHANGED <<panelAttrs, doc, pageContent, previousImages, timeouts, syncTimer, saves,
                 writeQueue, nSaves, saving, stored, objects, deleteLog, isPasting,
                 pendingUploads, sinceMutation, lastTriggered, nEdits, lastMutation,
                 mutatedInFlight, burstSize, failedDeletes, saveHistory,
                 uploadHistory, extractVars, otherVars>>

\* the pasted image has loaded: insertContent of the temporary image at the
\* selection, then uploadImage is called
PanelImageLoaded ==
  \E u \in uploads, pos \in 0..Len(doc) :
    /\ u.pc = "load"
    /\ Len(doc) < MaxNodes
    /\ OnUpdate(InsertAt(doc, pos, computeAttrs(LoadingImage(u.id))))
    /\ uploads' = (uploads \ {u}) \cup {[u EXCEPT !.pc = "bytes"]}
    /\ UNCHANGED <<previousImages, saves, writeQueue, nSaves, saving, stored, objects,
                   deleteLog, nUploads, isPasting, pendingUploads, liveBlobs,
                   lastTriggered, nEdits, saveHistory, uploadHistory, extractVars,
                   panelVars, otherVars>>

\* if (imageUrl): the temporary image is looked up by data-temp-url and its
\* attributes are replaced, src and data-storage-path by what uploadImage
\* resolved to; the object URL is revoked at once when the image is not found
PanelResolved(u) ==
  LET i == FindTempUrl(doc, u.id)
  IN  /\ IF i # 0
         THEN /\ OnUpdate(ReplaceAt(doc, i, computeAttrs(
                    [doc[i] EXCEPT !.src = UploadResult(u.id), !.loading = "false",
                                   !.temp = "false", !.uploadId = NoUpload,
                                   !.tempUrl = NoUpload,
                                   !.storagePath = UploadResult(u.id)])))
              /\ uploads' = (uploads \ {u}) \cup {[u EXCEPT !.pc = "revoke"]}
              /\ UNCHANGED <<liveBlobs, discarded>>
         ELSE /\ liveBlobs' = liveBlobs \ {u.id}
              /\ uploads' = uploads \ {u}
              /\ discarded' = discarded \cup {[id |-> u.id, at |-> nSaves]}
              /\ UNCHANGED <<doc, pageContent, timeouts, syncTimer, sinceMutation,
                             lastMutation, mutatedInFlight, burstSize, failedDeletes>>
      /\ resolvedUploads' = resolvedUploads \cup {u.id}
      /\ rejectedUploads' = rejectedUploads
      /\ isUploading' = FALSE
      /\ panelAttrs' = panelAttrs

\* catch: the first image with data-loading 'true' is deleted; finally
PanelRejected(u) ==
  LET i == FindLoading(doc)
  IN  /\ IF i # 0
         THEN OnUpdate(RemoveAt(doc, i))
         ELSE UNCHANGED <<doc, pageContent, timeouts, syncTimer, sinceMutation,
                         lastMutation, mutatedInFlight, burstSize, failedDeletes>>
      /\ uploads' = uploads \ {u}
      /\ rejectedUploads' = rejectedUploads \cup {u.id}
      /\ isUploading' = FALSE
      /\ UNCHANGED <<liveBlobs, resolvedUploads, discarded, panelAttrs>>

\* uploadBytes of uploadImage settles
PanelUploadBytesDone ==
  \E u \in uploads, ok \in BOOLEAN :
    /\ u.pc = "bytes"
    /\ IF ok
       THEN /\ objects' = objects \cup {u.id}
            /\ uploads' = (uploads \ {u}) \cup {[u EXCEPT !.pc = "url"]}
            /\ UNCHANGED <<doc, pageContent, timeouts, syncTimer, sinceMutation,
                           liveBlobs, lastMutation, mutatedInFlight, burstSize,
                           failedDeletes, uploadHistory, panelVars>>
       ELSE /\ objects' = objects
            /\ PanelRejected(u)
    /\ UNCHANGED <<previousImages, saves, writeQueue, nSaves, saving, stored, deleteLog,
                   nUploads, isPasting, pendingUploads, lastTriggered, nEdits,
                   saveHistory, extractVars, otherVars>>

\* getDownloadURL of uploadImage settles
PanelGetDownloadURLDone ==
  \E u \in uploads, ok \in BOOLEAN :
    /\ u.pc = "url"
    /\ IF ok THEN PanelResolved(u) ELSE PanelRejected(u)
    /\ UNCHANGED <<previousImages, saves, writeQueue, nSaves, saving, stored, objects,
                   deleteLog, nUploads, isPasting, pendingUploads, lastTriggered,
                   nEdits, saveHistory, extractVars, otherVars>>

\* setTimeout(() => URL.revokeObjectURL(tempUrl), 1000)
PanelRevoke ==
  \E u \in uploads :
    /\ u.pc = "revoke"
    /\ liveBlobs' = liveBlobs \ {u.id}
    /\ uploads' = uploads \ {u}
    /\ UNCHANGED <<doc, pageContent, previousImages, timeouts, syncTimer, saves,
                   writeQueue, nSaves, saving, stored, objects, deleteLog, nUploads,
                   isPasting, pendingUploads, sinceMutation, lastTriggered, nEdits,
                   lastMutation, mutatedInFlight, burstSize, failedDeletes,
                   saveHistory, uploadHistory, extractVars, panelVars, otherVars>>

NextPanel ==
  \/ TypeParagraph
  \/ DeleteNode
  \/ PanelPaste
  \/ PanelImageLoaded
  \/ PanelUploadBytesDone
  \/ PanelGetDownloadURLDone
  \/ PanelRevoke

InitPanel == HookInit /\ ExtractIdle /\ OtherIdle /\ panelAttrs \in BOOLEAN

SpecPanel == InitPanel /\ [][NextPanel]_vars

\* C5: when the upload of a temporary image fails, the object URL of that
\* image is released, the image itself is removed if it is still in the
\* document, and no other node changes
C5_FailureRemovesOwnPlaceholder ==
  [][\A k \in rejectedUploads' \ rejectedUploads :
       /\ k \notin liveBlobs'
       /\ IF Carrying(doc, k) = {} THEN doc' = doc
          ELSE \E i \in Carrying(doc, k) : doc' = RemoveAt(doc, i)]_vars

(***************************************************************************)
(* The hook with the Save button (src/client/src/hooks/useEditor.tsx):     *)
(* saveContent is called by the button, autoSaveContent by the interval;   *)
(* both run trackImagesAndCleanup and updatePage.  A save in flight is a   *)
(* record as above, with                                                   *)
(*   kind      "manual" (saveContent) or "auto" (autoSaveContent)          *)
(*   from      saveStatus when the call started                            *)
(*   orphans   the URLs the loop passes to deleteImage, in order           *)
(*   failed    the URLs of the loop whose deleteObject failed              *)
(***************************************************************************)
\* setTimeout(() => setSaveStatus('idle'), 2000) after a save that succeeded
SavedWindow == 2
\* setTimeout(() => setSaveStatus('idle'), 3000) after a save that failed
ErrorWindow == 3

debounceVars == <<timeouts, syncTimer, sinceMutation, lastMutation, mutatedInFlight,
                  burstSize, failedDeletes>>
pasteVars == <<uploads, nUploads, isPasting, pendingUploads, liveBlobs, uploadHistory>>

\* the timeout is not set
setTimeoutMut(timers, id, delay) == timers
\* setTimeout(() => setSaveStatus('idle'), delay) of the saveContent call id
setTimeout(timers, id, delay) == timers \cup {[id |-> id, left |-> delay]}

\* url.includes('blob:')
IncludesBlob(url) == url.scheme = "blob"

\* extractImages of the hook: the src of every image, temporary or not, whose
\* src is a Firebase storage URL
currentImages(content) ==
  LET kept == SelectSeq(Descendants(content),
                        LAMBDA node : /\ node.type = "image" /\ node.src # NoUrl
                                      /\ IsFirebaseUrl(node.src))
  IN  AddAll(<<>>, [i \in 1..Len(kept) |-> kept[i].src])

\* nonTempImages: the current images that are not object URLs
nonTempImages(current) == SelectSeq(current, LAMBDA url : ~IncludesBlob(url))

\* the URLs of deletedImages for which the loop awaits deleteImage
Orphans(previous, current) ==
  SelectSeq(deletedImages(previous, current),
            LAMBDA url : ~IncludesBlob(url) /\ extractStoragePathFromUrl(url) # NoPath)

\* a failed delete ends the loop
sweepAbortsMut(ok) == ~ok
\* whether the loop of the sweep ends when deleteImage has settled: deleteImage
\* catches the error of deleteObject, and the loop catches what deleteImage throws
sweepAborts(ok) == FALSE

\* trackImagesAndCleanup up to its first await, or to its end
EditorSweep(id, kind, content) ==
  LET current == currentImages(content)
      todo == Orphans(previousImages, current)
  IN  [id |-> id, content |-> content, kind |-> kind, from |-> saveStatus,
       pc |-> IF todo = <<>> THEN "write" ELSE "delete",
       current |-> current, todo |-> todo, previous |-> previousImages,
       orphans |-> todo, failed |-> {},
       submitted |-> IF todo = <<>> THEN {} ELSE {Head(todo)}]

\* a save starts: the content is read from the editor and the sweep begins
StartSave(kind) ==
  LET s == EditorSweep(nSaves + 1, kind, doc)
  IN  /\ nSaves < MaxSaves
      /\ nSaves' = nSaves + 1
      /\ saves' = saves \cup {s}
      /\ deleteLog' = deleteLog \cup {extractStoragePathFromUrl(url) : url \in s.submitted}
      /\ previousImages' = IF s.pc = "write" THEN nonTempImages(s.current)
                           ELSE previousImages
      /\ writeQueue' = IF s.pc = "write" THEN Append(writeQueue, s.id) ELSE writeQueue
      /\ writesIssued' = IF s.pc = "write" THEN writesIssued + 1 ELSE writesIssued
      /\ lastTriggered' = s.content

\* the Save button, enabled unless saving || !hasUnsavedChanges: saveContent
\* runs to its first await
ClickSave ==
  /\ ~saving /\ hasUnsavedChanges
  /\ StartSave("manual")
  /\ saving' = TRUE
  /\ saveStatus' = "saving"
  /\ UNCHANGED <<doc, pageContent, stored, objects, nEdits, saveFailed, debounceVars,
                 pasteVars, hasUnsavedChanges, statusTimers, failures, succeeded,
                 extractVars, panelVars, viewVars, uiVars, pageVars, renderVars,
                 previewVars>>

\* the interval fires: autoSaveContent runs to its first await
AutoSaveContent ==
  /\ hasUnsavedChanges
  /\ StartSave("auto")
  /\ UNCHANGED <<doc, pageContent, saving, stored, objects, nEdits, saveFailed,
                 debounceVars, pasteVars, editorVars, extractVars, panelVars, viewVars, uiVars, pageVars, renderVars,
                 previewVars>>

\* onUpdate: setPage(content), setHasUnsavedChanges(true), setSaveStatus('idle')
EditorOnUpdate(content) ==
  /\ nEdits < MaxEdits
  /\ nEdits' = nEdits + 1
  /\ doc' = content
  /\ pageContent' = content
  /\ hasUnsavedChanges' = TRUE
  /\ saveStatus' = "idle"
  /\ UNCHANGED <<previousImages, saves, writeQueue, nSaves, saving, stored, objects,
                 deleteLog, lastTriggered, saveHistory, debounceVars, pasteVars,
                 statusTimers, failures, succeeded, extractVars, panelVars,
                 viewVars, uiVars, pageVars, renderVars,
                 previewVars>>

EditorTypeParagraph ==
  \E pos \in 0..Len(doc) :
    /\ Len(doc) < MaxNodes
    /\ EditorOnUpdate(InsertAt(doc, pos, Paragraph))

EditorDeleteNode ==
  \E i \in 1..Len(doc) : EditorOnUpdate(RemoveAt(doc, i))

\* the catch and the finally of a save: saveContent reports the error,
\* autoSaveContent logs it
SaveThrows(s) ==
  /\ saves' = saves \ {s}
  /\ IF s.kind = "manual"
     THEN /\ saveStatus' = "error"
          /\ statusTimers' = setTimeout(statusTimers, s.id, ErrorWindow)
          /\ failures' = failures + 1
          /\ saving' = FALSE
     ELSE UNCHANGED <<saveStatus, statusTimers, failures, saving>>
  /\ UNCHANGED <<pageContent, hasUnsavedChanges, succeeded>>

\* deleteImage of the head of todo settles
EditorDeleteSettles(s, ok) ==
  LET rest == Tail(s.todo)
      done == rest = <<>>
      t == [s EXCEPT !.todo = rest,
                     !.pc = IF done THEN "write" ELSE "delete",
                     !.failed = IF ok THEN @ ELSE @ \cup {Head(s.todo)},
                     !.submitted = IF done THEN @ ELSE @ \cup {Head(rest)}]
  IN  /\ s.pc = "delete"
      /\ objects' = IF ok THEN objects \ {extractStoragePathFromUrl(Head(s.todo))}
                    ELSE objects
      /\ IF sweepAborts(ok)
         THEN /\ SaveThrows(s)
              /\ UNCHANGED <<deleteLog, previousImages, writeQueue, writesIssued>>
         ELSE /\ saves' = (saves \ {s}) \cup {t}
              /\ deleteLog' = IF done THEN deleteLog
                              ELSE deleteLog \cup {extractStoragePathFromUrl(Head(rest))}
              /\ previousImages' = IF done THEN nonTempImages(s.current)
                                   ELSE previousImages
              /\ writeQueue' = IF done THEN Append(writeQueue, s.id) ELSE writeQueue
              /\ writesIssued' = IF done THEN writesIssued + 1 ELSE writesIssued
              /\ UNCHANGED <<pageContent, saving, editorVars>>
      /\ UNCHANGED <<doc, nSaves, stored, lastTriggered, nEdits, saveFailed,
                     debounceVars, pasteVars, extractVars, panelVars, viewVars, uiVars, pageVars, renderVars,
                 previewVars>>

EditorDeleteImageDone == \E s \in saves, ok \in BOOLEAN : EditorDeleteSettles(s, ok)

\* updateDoc of the oldest write settles
EditorWriteSettles(s, ok) ==
  /\ s.pc = "write"
  /\ writeQueue # <<>> /\ Head(writeQueue) = s.id
  /\ writeQueue' = Tail(writeQueue)
  /\ IF ok
     THEN /\ stored' = JSONStringify(s.content)
          /\ saves' = (saves \ {s}) \cup {[s EXCEPT !.pc = "verify"]}
          /\ UNCHANGED <<pageContent, saving, saveFailed, editorVars>>
     ELSE /\ stored' = stored
          /\ saveFailed' = TRUE
          /\ SaveThrows(s)
  /\ UNCHANGED <<doc, previousImages, nSaves, objects, deleteLog, lastTriggered, nEdits,
                 writesIssued, debounceVars, pasteVars, extractVars, panelVars,
                 viewVars, uiVars, pageVars, renderVars,
                 previewVars>>

EditorUpdateDocDone == \E s \in saves, ok \in BOOLEAN : EditorWriteSettles(s, ok)

\* the getDoc of updatePage settles; on success the save goes on to
\* setPage(content), setHasUnsavedChanges(false) and, in saveContent, to
\* setSaveStatus('saved') and the timeout that sets 'idle'
EditorVerifySettles(s, ok) ==
  /\ s.pc = "verify"
  /\ IF ok
     THEN /\ saves' = saves \ {s}
          /\ pageContent' = s.content
          /\ hasUnsavedChanges' = FALSE
          /\ saveFailed' = saveFailed
          /\ failures' = failures
          /\ IF s.kind = "manual"
             THEN /\ saveStatus' = "saved"
                  /\ statusTimers' = setTimeout(statusTimers, s.id, SavedWindow)
                  /\ succeeded' = succeeded \cup
                       {[from |-> s.from, orphans |-> s.orphans, failed |-> s.failed]}
                  /\ saving' = FALSE
             ELSE UNCHANGED <<saveStatus, statusTimers, succeeded, saving>>
     ELSE /\ saveFailed' = TRUE
          /\ SaveThrows(s)
  /\ UNCHANGED <<doc, previousImages, writeQueue, nSaves, stored, objects, deleteLog,
                 lastTriggered, nEdits, writesIssued, debounceVars, pasteVars,
                 extractVars, panelVars, viewVars, uiVars, pageVars, renderVars,
                 previewVars>>

EditorGetDocDone == \E s \in saves, ok \in BOOLEAN : EditorVerifySettles(s, ok)

\* a timeout of saveContent fires: setSaveStatus('idle')
StatusTimeout ==
  \E t \in statusTimers :
    /\ t.left = 0
    /\ statusTimers' = statusTimers \ {t}
    /\ saveStatus' = "idle"
    /\ UNCHANGED <<hookVars, hasUnsavedChanges, failures, succeeded, extractVars,
                   panelVars, viewVars, uiVars, pageVars, renderVars,
                 previewVars>>

\* 1000 ms pass; a timeout whose delay has elapsed runs before time advances
EditorTick ==
  /\ statusTimers # {}
  /\ \A t \in statusTimers : t.left > 0
  /\ statusTimers' = {[t EXCEPT !.left = @ - 1] : t \in statusTimers}
  /\ UNCHANGED <<hookVars, saveStatus, hasUnsavedChanges, failures, succeeded,
                 extractVars, panelVars, viewVars, uiVars, pageVars, renderVars,
                 previewVars>>

NextEditor ==
  \/ EditorTypeParagraph
  \/ EditorDeleteNode
  \/ ClickSave
  \/ AutoSaveContent
  \/ EditorDeleteImageDone
  \/ EditorUpdateDocDone
  \/ EditorGetDocDone
  \/ StatusTimeout
  \/ EditorTick

SpecEditor == Init /\ [][NextEditor]_vars

C13_DeleteFailureNonFatal ==
  /\ [][\A s \in saves : s.pc = "delete" /\ s \notin saves' =>
          /\ saveStatus' = saveStatus /\ failures' = failures
          /\ \E t \in saves' :
               /\ t.id = s.id /\ t.todo = Tail(s.todo)
               /\ IF t.todo = <<>>
                  THEN /\ t.pc = "write"
                       /\ \E i \in 1..Len(writeQueue') : writeQueue'[i] = t.id
                       /\ writesIssued' = writesIssued + 1
                  ELSE /\ t.pc = "delete"
                       /\ Head(t.todo) \in t.submitted
                       /\ extractStoragePathFromUrl(Head(t.todo)) \in deleteLog']_vars
  /\ [](\A s \in saves : s.pc # "delete" => s.submitted = Range(s.orphans))
  /\ [][failures' # failures =>
          \E s \in saves : s.pc \in {"write", "verify"} /\ s \notin saves']_vars

\* a save whose sweep had two orphans has succeeded although the delete of the
\* first one failed: both were submitted, the content is stored and the status
\* is 'saved'
C13_Witness ==
  /\ \E r \in succeeded :
       /\ Len(r.orphans) = 2 /\ r.failed = {r.orphans[1]}
       /\ \A i \in 1..2 : extractStoragePathFromUrl(r.orphans[i]) \in deleteLog
  /\ saveStatus = "saved" /\ failures = 0 /\ nSaves = 1
  /\ stored = JSONStringify(doc)

(***************************************************************************)
(* The reference extractors as functions of a content tree.                *)
(***************************************************************************)
MaxChildren == 2

\* the srcs of the images of a tree: a download URL and the bare path of the
\* same object, an image of another site, the object URL of a pasted image
Srcs == {DownloadUrl(11), BarePath(11), ExternalUrl, SchemelessUrl(12)}
Leaves ==
  {ImageNode(url, NoTemp, NoUpload, NoUrl) : url \in Srcs}
    \cup {ImageNode(DownloadUrl(11), "true", 1, NoUrl), Placeholder(1)}
Blocks ==
  {Paragraph} \cup Leaves \cup {[Paragraph EXCEPT !.content = <<leaf>>] : leaf \in Leaves}
Trees == UNION {[1..n -> Blocks] : n \in 0..MaxChildren}

InitExtract ==
  /\ HookInit /\ doc = <<>>
  /\ HookSchema
  /\ OtherIdle
  /\ tree \in Trees
  /\ paths = NoResult
  /\ images = NoResult

ApplyExtractImagePaths ==
  /\ paths = NoResult
  /\ paths' = extractImagePaths(tree)
  /\ UNCHANGED <<hookVars, panelVars, otherVars, tree, images>>

ApplyExtractImages ==
  /\ images = NoResult
  /\ images' = extractImages(tree)
  /\ UNCHANGED <<hookVars, panelVars, otherVars, tree, paths>>

NextExtract ==
  \/ ApplyExtractImagePaths
  \/ ApplyExtractImages

SpecExtract == InitExtract /\ [][NextExtract]_vars

\* the identifier of an image as the reference set holds it: the object path of
\* a storage URL, a bare path as it is, another URL as it is
Normalized(url) ==
  IF IncludesStorageHost(url) /\ url.obj # NoPath THEN BarePath(url.obj) ELSE url
ImagesOf(content) ==
  {node \in Range(Descendants(content)) : node.type = "image"}
\* the images that are not pending and whose src, when it names the storage
\* host, is a URL
Committed(content) ==
  {node \in ImagesOf(content) :
     ~Truthy(node.temp) /\ (IncludesStorageHost(node.src) => ParsesAsUrl(node.src))}

\* C3: the references extracted from a tree are the normalized identifiers of
\* its images that are not pending, each once: no identifier appears that only
\* a pending image holds
C3_ReferencesOfCommittedImages ==
  paths # NoResult =>
    /\ Range(paths) = {Normalized(node.src) : node \in Committed(tree)}
    /\ \A i, j \in 1..Len(paths) : paths[i] = paths[j] => i = j

\* C22: of an image that is not pending, the references hold the decoded object
\* path when the src is a storage URL (the path extractStoragePathFromUrl
\* decodes), the src itself when it is a bare path or a URL of another site;
\* no two references denote the same stored object
C22_NormalizedReferences ==
  paths # NoResult =>
    /\ \A node \in Committed(tree) :
         LET src == node.src
         IN  /\ IncludesStorageHost(src) /\ src.obj # NoPath =>
                  /\ BarePath(src.obj) \in Range(paths)
                  /\ src \notin Range(paths)
                  /\ extractStoragePathFromUrl(src) = src.obj
             /\ src.scheme = "path" => src \in Range(paths)
             /\ src.scheme = "https" /\ ~IncludesStorageHost(src) => src \in Range(paths)
    /\ \A i, j \in 1..Len(paths) :
         paths[i].obj = paths[j].obj /\ paths[i].obj # NoPath => i = j

\* a tree holds an image by its download URL and an image by the bare path of
\* the same object, and the references hold that path once
C22_Witness ==
  /\ tree = <<Linked(DownloadUrl(11)), Linked(BarePath(11))>>
  /\ paths = <<BarePath(11)>>

\* C23: an image whose src does not parse as a URL contributes no reference
\* (and has no storage path), and the reference of every other image that is
\* not pending is returned
C23_MalformedUrlSkipped ==
  paths # NoResult =>
    LET broken(url) == IncludesStorageHost(url) /\ url.scheme = "none"
    IN  /\ \A node \in ImagesOf(tree) :
             broken(node.src) =>
               /\ extractStoragePathFromUrl(node.src) = NoPath
               /\ node.src \notin Range(paths)
               /\ (BarePath(node.src.obj) \in Range(paths) =>
                     \E other \in ImagesOf(tree) :
                       ~broken(other.src) /\ other.src.obj = node.src.obj)
        /\ \A node \in Committed(tree) : Normalized(node.src) \in Range(paths)

\* references have been extracted from a tree with an image whose URL does
\* not parse before an image of another object, and from one with it after
C23_Witness ==
  /\ tree \in {<<Linked(SchemelessUrl(12)), Linked(DownloadUrl(11))>>,
               <<Linked(ExternalUrl), [Paragraph EXCEPT !.content = <<Linked(SchemelessUrl(12))>>]>>}
  /\ paths \in {<<BarePath(11)>>, <<ExternalUrl>>}

(***************************************************************************)
(* Properties of the orphan sweep.                                         *)
(***************************************************************************)
\* the saves whose sweep has run to its end
SweepsDone == {s \in saves : s.pc # "delete"}
\* previousRefs \ newRefs of a sweep, as URLs
Difference(s) == Range(s.previous) \ Range(s.current)

\* C1, as stated: when the sweep of a save has run to its end, the identifiers
\* it submitted for deletion are exactly previousRefs \ newRefs
C1_SubmittedIsDifference ==
  \A s \in SweepsDone : s.submitted = Difference(s)

\* C1, amended: when the sweep of a save has run to its end, the URLs it
\* submitted for deletion are exactly the URLs of previousRefs \ newRefs from
\* which a storage path can be extracted, every path of them has been passed
\* to the storage service, and a sweep under way has submitted nothing else
C1_SubmittedIsDeletableDifference ==
  /\ \A s \in SweepsDone :
       s.submitted = {url \in Difference(s) : extractStoragePathFromUrl(url) # NoPath}
  /\ \A s \in saves :
       /\ s.submitted \subseteq Difference(s)
       /\ \A url \in s.submitted : extractStoragePathFromUrl(url) \in deleteLog

\* a sweep has ended that submitted one URL of the difference and skipped another
C1_Witness ==
  \E s \in SweepsDone :
    /\ s.submitted # {}
    /\ Difference(s) \ s.submitted # {}
    /\ Range(s.current) # {}

\* C2: a URL whose delete failed, and which has not been in the document
\* since, is not submitted for deletion again
C2_FailedDeleteNotResubmitted ==
  [][\A s \in saves' : \A url \in s.submitted :
       url \in failedDeletes =>
         \E t \in saves : t.id = s.id /\ url \in t.submitted]_vars

(***************************************************************************)
(* Properties of the pasted-image upload.                                  *)
(***************************************************************************)
ImageCount(content) == Cardinality({i \in 1..Len(content) : content[i].type = "image"})

\* C4: when the upload with id k succeeds while its temporary image is in the
\* document, exactly that node gets the uploaded src and storage path and loses
\* its temporary flag; the number of image nodes stays and no other node changes
C4_SuccessRewritesPlaceholder ==
  [][\A k \in resolvedUploads' \ resolvedUploads :
       Carrying(doc, k) # {} =>
         /\ Len(doc') = Len(doc)
         /\ ImageCount(doc') = ImageCount(doc)
         /\ \E i \in Carrying(doc, k) :
              /\ doc'[i].type = "image"
              /\ doc'[i].src = DownloadUrl(k)
              /\ doc'[i].storagePath = BarePath(k)
              /\ ~Truthy(doc'[i].temp)
              /\ \A j \in 1..Len(doc) : j # i => doc'[j] = doc[j]]_vars

\* C6: an upload that succeeds after its temporary image was deleted leaves the
\* document alone, and once a sweep started after that has run to its end the
\* uploaded object has been submitted for deletion
C6_DiscardedUploadIsSwept ==
  /\ [][discarded' # discarded => doc' = doc]_vars
  /\ [](\A d \in discarded : \A s \in SweepsDone :
          s.id > d.at => d.id \in deleteLog)

(***************************************************************************)
(* Properties of the debounced save.                                       *)
(***************************************************************************)
\* nothing is scheduled or in flight
Quiescent ==
  /\ saves = {} /\ timeouts = <<>> /\ uploads = {} /\ ~syncTimer.armed

\* C7: a burst of mutations leaves one timeout, holding the content of the last
\* mutation; a save starts only for a burst of at least one mutation, when the
\* delay has elapsed since the last mutation, with the content of that
\* mutation, and ends the burst; every save started issues at most one write
C7_DebouncedSave ==
  [][/\ nSaves' = nSaves + 1 =>
          /\ burstSize >= 1
          /\ sinceMutation = DebounceDelay
          /\ lastTriggered' = lastMutation
          /\ burstSize' = 0
          /\ timeouts' = <<>>
     /\ burstSize' >= 1 =>
          /\ Len(timeouts') = 1
          /\ timeouts'[1].content = lastMutation'
     /\ writesIssued' <= nSaves'
     /\ saves' = {} => writesIssued' = nSaves']_vars

\* a burst of two mutations has been saved by one write
C7_Witness ==
  /\ nSaves = 1 /\ writesIssued = 1 /\ nEdits = 2 /\ nUploads = 0
  /\ burstSize = 0 /\ lastTriggered = lastMutation
  /\ stored = JSONStringify(lastMutation)

\* C8: at most one save is in flight
C8_OneSaveInFlight == Cardinality(saves) <= 1

\* C9: a save that carries a mutation made while a save was in flight starts
\* only after that save has completed, and once nothing is scheduled or in
\* flight and no write has failed, the mutated content is the stored content
C9_TrailingSave ==
  /\ [][nSaves' = nSaves + 1 /\ mutatedInFlight => saves = {}]_vars
  /\ [](Quiescent /\ ~saveFailed /\ mutatedInFlight =>
          stored = JSONStringify(lastMutation))

\* C10: once every save started has completed without a failure and nothing is
\* scheduled, the stored content is the content of the save started last
C10_LastSaveWins ==
  Quiescent /\ ~saveFailed /\ nSaves >= 1 => stored = JSONStringify(lastTriggered)

(***************************************************************************)
(* Content trees as the editor's getJSON() gives them: a node is an object *)
(* with the keys it has among type, attrs, content, marks, text.  A string *)
(* is a TLA+ string, a number an integer, null is Null, an array a         *)
(* sequence.  A JSON text is the sequence of its tokens.                   *)
(***************************************************************************)
Punct(c) == [p |-> c]
StrTok(str) == [s |-> str]
NumTok(n) == [n |-> n]
BoolTok(b) == [b |-> b]
NullTok == [null |-> TRUE]

\* the keys of a node and of the attrs of a node, in the order toJSON sets them
NodeKeys == <<"type", "attrs", "content", "marks", "text">>
AttrKeys == <<"level", "textAlign", "checked", "src", "alt">>

Has(object, key) == key \in DOMAIN object

\* the tokens of the elements of an array or the members of an object, with
\* commas between them
RECURSIVE Joined(_)
Joined(parts) ==
  IF parts = <<>> THEN <<>>
  ELSE IF Len(parts) = 1 THEN Head(parts)
  ELSE Head(parts) \o <<Punct(",")>> \o Joined(Tail(parts))

\* JSON.stringify of the value of an attribute: a level is a number, checked a
\* boolean, the alt of an image of these trees null, the others are strings
stringifyAttr(key, value) ==
  IF key = "alt" THEN <<NullTok>>
  ELSE IF key = "level" THEN <<NumTok(value)>>
  ELSE IF key = "checked" THEN <<BoolTok(value)>>
  ELSE <<StrTok(value)>>

stringifyAttrs(attrs) ==
  LET keys == SelectSeq(AttrKeys, LAMBDA key : Has(attrs, key))
  IN  <<Punct("{")>>
        \o Joined([i \in 1..Len(keys) |->
                     <<StrTok(keys[i]), Punct(":")>> \o stringifyAttr(keys[i], attrs[keys[i]])])
        \o <<Punct("}")>>

stringifyMarks(marks) ==
  <<Punct("[")>>
    \o Joined([i \in 1..Len(marks) |->
                 <<Punct("{"), StrTok("type"), Punct(":"), StrTok(marks[i].type),
                   Punct("}")>>])
    \o <<Punct("]")>>

\* JSON.stringify of a content tree
RECURSIVE stringify(_)
stringify(node) ==
  LET keys == SelectSeq(NodeKeys, LAMBDA key : Has(node, key))
      member(key) ==
        <<StrTok(key), Punct(":")>> \o
          (IF key = "attrs" THEN stringifyAttrs(node.attrs)
           ELSE IF key = "marks" THEN stringifyMarks(node.marks)
           ELSE IF key = "content"
                THEN <<Punct("[")>>
                       \o Joined([i \in 1..Len(node.content) |-> stringify(node.content[i])])
                       \o <<Punct("]")>>
           ELSE <<StrTok(node[key])>>)
  IN  <<Punct("{")>> \o Joined([i \in 1..Len(keys) |-> member(keys[i])]) \o <<Punct("}")>>

\* the result of a parsing step: the value read, its typeof, and the position
\* after it; or a SyntaxError
SyntaxError == [ok |-> FALSE]
Parsed(value, kind, next) == [ok |-> TRUE, v |-> value, kind |-> kind, next |-> next]
EmptyObject == [key \in {} |-> Null]

\* JSON.parse: a value at position i of the tokens
RECURSIVE ParseValue(_, _)
RECURSIVE ParseMembers(_, _, _)
RECURSIVE ParseElements(_, _, _)
ParseValue(tokens, i) ==
  IF i > Len(tokens) THEN SyntaxError
  ELSE LET tok == tokens[i]
       IN  IF Has(tok, "s") THEN Parsed(tok.s, "string", i + 1)
           ELSE IF Has(tok, "n") THEN Parsed(tok.n, "number", i + 1)
           ELSE IF Has(tok, "b") THEN Parsed(tok.b, "boolean", i + 1)
           ELSE IF Has(tok, "null") THEN Parsed(Null, "null", i + 1)
           ELSE IF ~Has(tok, "p") THEN SyntaxError
           ELSE IF tok.p = "{"
                THEN IF i < Len(tokens) /\ tokens[i + 1] = Punct("}")
                     THEN Parsed(EmptyObject, "object", i + 2)
                     ELSE ParseMembers(tokens, i + 1, EmptyObject)
           ELSE IF tok.p = "["
                THEN IF i < Len(tokens) /\ tokens[i + 1] = Punct("]")
                     THEN Parsed(<<>>, "object", i + 2)
                     ELSE ParseElements(tokens, i + 1, <<>>)
           ELSE SyntaxError

\* the members of an object from position i on, object holding those read so far
ParseMembers(tokens, i, object) ==
  IF i + 1 > Len(tokens) \/ ~Has(tokens[i], "s") \/ tokens[i + 1] # Punct(":")
  THEN SyntaxError
  ELSE LET r == ParseValue(tokens, i + 2)
       IN  IF ~r.ok \/ r.next > Len(tokens) THEN SyntaxError
           ELSE LET read == (tokens[i].s :> r.v) @@ object
                IN  IF tokens[r.next] = Punct(",")
                    THEN ParseMembers(tokens, r.next + 1, read)
                    ELSE IF tokens[r.next] = Punct("}")
                         THEN Parsed(read, "object", r.next + 1)
                    ELSE SyntaxError

\* the elements of an array from position i on, array holding those read so far
ParseElements(tokens, i, array) ==
  LET r == ParseValue(tokens, i)
  IN  IF ~r.ok \/ r.next > Len(tokens) THEN SyntaxError
      ELSE IF tokens[r.next] = Punct(",")
           THEN ParseElements(tokens, r.next + 1, Append(array, r.v))
           ELSE IF tokens[r.next] = Punct("]")
                THEN Parsed(Append(array, r.v), "object", r.next + 1)
           ELSE SyntaxError

\* every text is a SyntaxError
JSONParseMut(tokens) == SyntaxError
\* JSON.parse(text): the value of the whole text
JSONParse(tokens) ==
  LET r == ParseValue(tokens, 1)
  IN  IF r.ok /\ r.next = Len(tokens) + 1 THEN r ELSE SyntaxError

(***************************************************************************)
(* The content field of a page, in the page document of Firestore and in   *)
(* the Page that getPage returns: a string (its JSON text), an object (a   *)
(* content tree), or another value that JSON.parse gave.                   *)
(***************************************************************************)
StringContent(tokens) == [kind |-> "string", text |-> tokens]
ObjectContent(value) == [kind |-> "object", tree |-> value]
ScalarContent(kind, value) == [kind |-> kind, scalar |-> value]

\* the value that JSON.parse returned, as a content field; the text of a
\* string that was parsed is that string as a bare word
AsContent(r) ==
  IF r.kind = "object" THEN ObjectContent(r.v)
  ELSE IF r.kind = "string" THEN StringContent(IF r.v = "" THEN <<>> ELSE <<[w |-> r.v]>>)
  ELSE ScalarContent(r.kind, r.v)

\* JavaScript truthiness of a content field
TruthyContent(content) ==
  IF content.kind = "object" THEN TRUE
  ELSE IF content.kind = "string" THEN content.text # <<>>
  ELSE IF content.kind = "boolean" THEN content.scalar
  ELSE IF content.kind = "number" THEN content.scalar # 0
  ELSE FALSE

\* { type: 'doc', content: [] }
EmptyDoc == [type |-> "doc", content |-> <<>>]

\* updatePage: the content field written for updates.content
updatePage(content) ==
  IF TruthyContent(content) /\ content.kind = "object"
  THEN StringContent(stringify(content.tree))
  ELSE content

\* getPage: the content of the Page returned for data.content
getPage(content) ==
  LET parsed == IF content.kind = "string"
                THEN LET r == JSONParse(content.text)
                     IN  IF r.ok THEN AsContent(r) ELSE content
                ELSE content
  IN  IF TruthyContent(parsed) THEN parsed ELSE ObjectContent(EmptyDoc)

(***************************************************************************)
(* The content trees under study: docs of up to MaxBlocks blocks of the    *)
(* node kinds of the editor.                                               *)
(***************************************************************************)
MaxBlocks == 2

TextNode(text) == [type |-> "text", text |-> text]
MarkedText(text, marks) ==
  [type |-> "text", marks |-> [i \in 1..Len(marks) |-> [type |-> marks[i]]],
   text |-> text]
Leaf(type) == [type |-> type]
LeafWith(type, attrs) == [type |-> type, attrs |-> attrs]
Block(type, content) == [type |-> type, content |-> content]
BlockWith(type, attrs, content) == [type |-> type, attrs |-> attrs, content |-> content]
Doc(content) == Block("doc", content)

HelloParagraph == Block("paragraph", <<TextNode("hello")>>)
Inlines ==
  { TextNode("hello"), MarkedText("hello", <<"bold">>),
    MarkedText("hello", <<"bold", "italic">>), Leaf("hardBreak") }
Blocks2 ==
  {Leaf("paragraph"), Leaf("horizontalRule")}
    \cup {Block("paragraph", <<inline>>) : inline \in Inlines}
    \cup { BlockWith("paragraph", [textAlign |-> "center"], <<TextNode("hello")>>),
           BlockWith("heading", [level |-> 2], <<TextNode("hello")>>),
           LeafWith("image", [src |-> "https://example.com/a.png", alt |-> Null]),
           Block("bulletList", <<Block("listItem", <<HelloParagraph>>)>>),
           Block("taskList",
                 <<BlockWith("taskItem", [checked |-> TRUE], <<HelloParagraph>>)>>) }
Docs == {Doc(content) : content \in UNION {[1..n -> Blocks2] : n \in 0..MaxBlocks}}

(***************************************************************************)
(* A page is written by updatePage and opened by the load effect of the    *)
(* hook (loadPage of useEditor.tsx), or a page whose content field holds   *)
(* something else is opened.                                               *)
(*   pc   "save": updatePage is to write updates.content                   *)
(*        "open": getPage is in flight                                     *)
(*        "data": getPage has returned pageData                            *)
(*        "done": loadPage has run to its end                              *)
(***************************************************************************)
\* texts that are not the JSON text of a value: the empty string, plain text, a
\* JSON text cut short
Malformed ==
  {StringContent(<<>>), StringContent(<<[w |-> "hello"]>>)}
    \cup {StringContent(SubSeq(stringify(d), 1, Len(stringify(d)) - 1)) :
            d \in {EmptyDoc, Doc(<<HelloParagraph>>)}}

\* content: { type: 'doc', content: [{ type: 'paragraph' }] } of the editor
InitialContent == Doc(<<Leaf("paragraph")>>)

\* editor.commands.setContent(content): the document of the editor; the schema
\* fills a doc without children with an empty paragraph
setContent(json) ==
  IF Has(json, "content") /\ json.content # <<>> THEN json ELSE InitialContent

InitPage ==
  /\ HookInit /\ doc = <<>>
  /\ ExtractIdle /\ HookSchema /\ ViewInit /\ UiIdle /\ EditorInit
  /\ RenderIdle /\ PreviewIdle
  /\ pageData = Null /\ page = Null
  /\ editorContent = InitialContent
  /\ contentLoaded = FALSE
  /\ loading = TRUE
  /\ editorRef = FALSE
  /\ \/ /\ pc = "save"
        /\ updates \in {ObjectContent(d) : d \in Docs}
        /\ firestore = ObjectContent(EmptyDoc)
     \/ /\ pc = "open"
        /\ updates = Null
        /\ firestore \in Malformed

\* updatePage: updateDoc has written the content field
UpdatePageDone ==
  /\ pc = "save"
  /\ firestore' = updatePage(updates)
  /\ pc' = "open"
  /\ UNCHANGED <<hookVars, extractVars, panelVars, viewVars, uiVars, editorVars, renderVars,
                 previewVars, uiVars, updates,
                 pageData, page, editorContent, contentLoaded, loading, editorRef>>

\* getPage: getDoc has resolved and the Page is returned
GetPageDone ==
  /\ pc = "open"
  /\ pageData' = getPage(firestore)
  /\ pc' = "data"
  /\ UNCHANGED <<hookVars, extractVars, panelVars, viewVars, uiVars, editorVars, renderVars,
                 previewVars, uiVars, updates,
                 firestore, page, editorContent, contentLoaded, loading, editorRef>>

\* loadPage after await getPage: setPage(pageData); if editorRef.current holds
\* the editor the content, parsed when it is a string, is set in it; a
\* SyntaxError of JSON.parse is caught and logged by the catch of loadPage;
\* finally setLoading(false)
LoadPageDone ==
  /\ pc = "data"
  /\ page' = pageData
  /\ LET r == IF pageData.kind = "string" THEN JSONParse(pageData.text)
              ELSE Parsed(pageData.tree, "object", 0)
     IN  IF editorRef /\ TruthyContent(pageData) /\ r.ok
         THEN /\ editorContent' = setContent(r.v)
              /\ contentLoaded' = TRUE
         ELSE UNCHANGED <<editorContent, contentLoaded>>
  /\ loading' = FALSE
  /\ pc' = "done"
  /\ UNCHANGED <<hookVars, extractVars, panelVars, viewVars, uiVars, editorVars, renderVars,
                 previewVars, uiVars, updates,
                 firestore, pageData, editorRef>>

\* the effect on [editor] runs with the editor instance: editorRef.current = editor
EditorRefEffect ==
  /\ pc # "idle"
  /\ ~editorRef
  /\ editorRef' = TRUE
  /\ UNCHANGED <<hookVars, extractVars, panelVars, viewVars, uiVars, editorVars, renderVars,
                 previewVars, uiVars, pc, updates, firestore, pageData, page, editorContent,
                 contentLoaded, loading>>

NextPage ==
  \/ UpdatePageDone
  \/ GetPageDone
  \/ LoadPageDone
  \/ EditorRefEffect

SpecPage == InitPage /\ [][NextPage]_vars

\* the awaits of updatePage and of getPage do not last for ever, loadPage goes
\* on when getPage has resolved and the effect on [editor] runs
SpecPageFair ==
  /\ SpecPage
  /\ []<>(pc # "save") /\ []<>(pc # "open")
  /\ WF_vars(LoadPageDone) /\ WF_vars(EditorRefEffect)

\* C14: the Page that getPage returns for a content tree written by updatePage
\* holds a tree equal to the one written, and what was written is a string
C14_RoundTrip ==
  pc \in {"data", "done"} /\ updates # Null =>
    /\ firestore.kind = "string"
    /\ pageData = updates

\* a doc of a paragraph with marked text and a checked task item has been
\* written as a string and loaded into the editor as it was
C14_Witness ==
  /\ pc = "done"
  /\ updates = ObjectContent(Doc(<<
       Block("paragraph", <<MarkedText("hello", <<"bold", "italic">>)>>),
       Block("taskList",
             <<BlockWith("taskItem", [checked |-> TRUE], <<HelloParagraph>>)>>)>>))
  /\ firestore = StringContent(stringify(updates.tree))
  /\ page = updates
  /\ editorContent = updates.tree

\* C15: when the stored content is a string that JSON.parse rejects, the page
\* loaded holds the empty doc and loading has ended
C15_MalformedFallsBack ==
  pc = "done" /\ firestore.kind = "string" /\ ~JSONParse(firestore.text).ok =>
    /\ page = ObjectContent(EmptyDoc)
    /\ ~loading

\* C26: once a page with a content tree has been loaded and the editor
\* instance is in editorRef, in whichever order, the editor eventually shows
\* the loaded content and contentLoaded is true
C26_EventuallyLoaded ==
  (pc = "done" /\ editorRef /\ pageData.kind = "object")
    ~> (contentLoaded /\ editorContent = setContent(pageData.tree))

(***************************************************************************)
(* The printable HTML of a content (tiptapToHtml, convertNodeToHtml of      *)
(* part_001).  A string of HTML is the sequence of its pieces, in the       *)
(* order the code appends them: an open tag with its attribute strings, a   *)
(* close tag, a void element with its attribute strings, or characters.     *)
(***************************************************************************)
OpenTag(tag, attrs) == [open |-> tag, attrs |-> attrs]
CloseTag(tag) == [close |-> tag]
VoidTag(tag, attrs) == [void |-> tag, attrs |-> attrs]
Chars(text) == [chars |-> text]
Newline == Chars("\n")

\* node.attrs?.checked, node.attrs?.textAlign, node.attrs?.level as conditions
Checked(node) ==
  Has(node, "attrs") /\ Has(node.attrs, "checked") /\ node.attrs.checked
Aligned(node) ==
  Has(node, "attrs") /\ Has(node.attrs, "textAlign") /\ node.attrs.textAlign # ""
Level(node) ==
  IF Has(node, "attrs") /\ Has(node.attrs, "level") /\ node.attrs.level # 0
  THEN node.attrs.level ELSE 1

\* marks.forEach: each mark wraps the text built so far
RECURSIVE applyMarks(_, _)
applyMarks(text, marks) ==
  IF marks = <<>> THEN text
  ELSE LET type == Head(marks).type
           wrapped(tag) == <<OpenTag(tag, <<>>)>> \o text \o <<CloseTag(tag)>>
       IN  applyMarks(IF type = "bold" THEN wrapped("strong")
                      ELSE IF type = "italic" THEN wrapped("em")
                      ELSE IF type = "underline" THEN wrapped("u")
                      ELSE IF type = "strike" THEN wrapped("s")
                      ELSE text,
                      Tail(marks))

\* the switch on node.type: the tag and the class attribute; 'div' when no
\* case matches
TagOf(node) ==
  IF node.type = "paragraph" THEN "p"
  ELSE IF node.type = "heading" THEN "h" \o ToString(Level(node))
  ELSE IF node.type \in {"bulletList", "taskList"} THEN "ul"
  ELSE IF node.type = "orderedList" THEN "ol"
  ELSE IF node.type \in {"listItem", "taskItem"} THEN "li"
  ELSE "div"
ClassOf(node) ==
  IF node.type = "taskList" THEN <<"class=\"task-list\"">>
  ELSE IF node.type = "taskItem"
       THEN <<"class=\"task-item " \o (IF Checked(node) THEN "checked" ELSE "") \o "\"">>
  ELSE <<>>
\* the tags after which a line break is added
BreakAfter == {"p", "h1", "h2", "h3", "h4", "h5", "h6", "ul", "ol", "li", "hr", "div"}

RECURSIVE convertNodeToHtml(_)
RECURSIVE convertChildren(_)
\* node.content.map(convertNodeToHtml).join(''); html += convertNodeToHtml(child)
convertChildren(nodes) ==
  IF nodes = <<>> THEN <<>>
  ELSE convertNodeToHtml(Head(nodes)) \o convertChildren(Tail(nodes))
convertNodeToHtml(node) ==
  IF node = Null THEN <<>>
  ELSE IF node.type = "text"
       THEN applyMarks(IF Has(node, "text") /\ node.text # ""
                       THEN <<Chars(node.text)>> ELSE <<>>,
                       IF Has(node, "marks") THEN node.marks ELSE <<>>)
  ELSE IF node.type = "horizontalRule" THEN <<VoidTag("hr", <<>>)>>
  ELSE IF node.type = "hardBreak" THEN <<VoidTag("br", <<>>)>>
  ELSE LET children == IF Has(node, "content") THEN convertChildren(node.content)
                       ELSE <<>>
           tag == TagOf(node)
           attrs == ClassOf(node)
                      \o (IF Aligned(node)
                          THEN <<"style=\"text-align: " \o node.attrs.textAlign \o "\"">>
                          ELSE <<>>)
           checkbox == IF node.type = "taskItem"
                       THEN <<VoidTag("input",
                                      <<"type=\"checkbox\"",
                                        IF Checked(node) THEN "checked" ELSE "",
                                        "disabled">>),
                              Chars(" ")>>
                       ELSE <<>>
       IN  IF node.type = "doc" THEN children
           ELSE checkbox \o <<OpenTag(tag, attrs)>> \o children \o <<CloseTag(tag)>>
                  \o (IF tag \in BreakAfter THEN <<Newline>> ELSE <<>>)

\* '<p>' + message + '</p>'
MessageParagraph(message) == <<OpenTag("p", <<>>), Chars(message), CloseTag("p")>>

tiptapToHtml(content) ==
  LET r == IF content.kind = "string" THEN JSONParse(content.text)
           ELSE Parsed(content, content.kind, 0)
      parsed == IF content.kind = "string" THEN AsContent(r) ELSE content
  IN  IF ~r.ok THEN MessageParagraph("Error: Invalid content format")
      ELSE IF ~TruthyContent(parsed) THEN MessageParagraph("No content to export")
      ELSE IF parsed.kind = "object" THEN convertNodeToHtml(parsed.tree)
      ELSE <<OpenTag("div", <<>>), CloseTag("div"), Newline>>

\* the contents rendered: docs of up to MaxBlocks blocks; a text carries up
\* to MaxMarks distinct marks in either order
MaxMarks == 2
Marks == {"bold", "italic", "underline", "strike"}
MarkLists ==
  {marks \in UNION {[1..n -> Marks] : n \in 0..MaxMarks} :
     \A i, j \in DOMAIN marks : i # j => marks[i] # marks[j]}
UnknownKinds == {"blockquote", "callout"}
ImageUrl == "https://example.com/a.png"
TaskList(checked) ==
  Block("taskList", <<BlockWith("taskItem", [checked |-> checked], <<HelloParagraph>>)>>)
RenderBlocks ==
  {Block("paragraph", <<MarkedText("hello", marks)>>) : marks \in MarkLists}
    \cup {Block(kind, <<HelloParagraph>>) : kind \in UnknownKinds}
    \cup {TaskList(checked) : checked \in BOOLEAN}
    \cup { Leaf("paragraph"), Leaf("horizontalRule"),
           Block("paragraph", <<TextNode("hello"), Leaf("hardBreak"), TextNode("world")>>),
           BlockWith("paragraph", [textAlign |-> "center"], <<TextNode("hello")>>),
           BlockWith("heading", [level |-> 2], <<TextNode("hello")>>),
           LeafWith("image", [src |-> ImageUrl, alt |-> Null]),
           LeafWith("image", [src |-> ImageUrl, alt |-> Null, textAlign |-> "center"]),
           Block("orderedList", <<Block("listItem", <<HelloParagraph>>)>>) }
RenderDocs == {Doc(content) : content \in UNION {[1..n -> RenderBlocks] : n \in 0..MaxBlocks}}
RenderInputs ==
  {ObjectContent(d) : d \in RenderDocs}
    \cup {StringContent(stringify(d)) : d \in {Doc(<<block>>) : block \in RenderBlocks}}
    \cup Malformed \cup {ScalarContent("null", Null)}

\* tiptapToHtml(content) is called, once in a behaviour
TiptapToHtml ==
  /\ parsedContent = Null
  /\ \E content \in RenderInputs :
       /\ parsedContent' = content
       /\ html' = tiptapToHtml(content)
  /\ UNCHANGED <<hookVars, extractVars, panelVars, viewVars, uiVars, editorVars, pageVars,
                 previewVars>>

NextRender == TiptapToHtml

SpecRender == Init /\ [][NextRender]_vars

\* the pieces of an HTML string that are not line breaks
WithoutBreaks(pieces) == SelectSeq(pieces, LAMBDA piece : piece # Newline)
\* the doc of one block
OneBlock(block) == ObjectContent(Doc(<<block>>))

\* C16: a paragraph with the text "hello" carrying marks renders, line breaks
\* aside, as <p> around the text wrapped in the tags of its marks nested in
\* the order strong, em, u, s from the outside, whatever the stored order
C16_MarkNesting ==
  \A marks \in MarkLists :
    parsedContent = OneBlock(Block("paragraph", <<MarkedText("hello", marks)>>)) =>
      LET wrap(type, tag, inner) ==
            IF type \in Range(marks)
            THEN <<OpenTag(tag, <<>>)>> \o inner \o <<CloseTag(tag)>> ELSE inner
      IN  WithoutBreaks(html) =
            <<OpenTag("p", <<>>)>>
              \o wrap("bold", "strong",
                      wrap("italic", "em",
                           wrap("underline", "u",
                                wrap("strike", "s", <<Chars("hello")>>))))
              \o <<CloseTag("p")>>

\* C17: the HTML of a checked task item has an open tag
\* <li class="task-item checked">, and every such tag is followed, before
\* any other piece, by a checkbox input that is checked and disabled
C17_CheckedTaskItem ==
  LET item(piece) ==
        /\ Has(piece, "open") /\ piece.open = "li"
        /\ "class=\"task-item checked\"" \in Range(piece.attrs)
      box(piece) ==
        /\ Has(piece, "void") /\ piece.void = "input"
        /\ {"type=\"checkbox\"", "checked", "disabled"} \subseteq Range(piece.attrs)
  IN  /\ parsedContent = OneBlock(TaskList(TRUE)) => \E i \in DOMAIN html : item(html[i])
      /\ \A i \in DOMAIN html : item(html[i]) => i < Len(html) /\ box(html[i + 1])

\* C18: a node of an unknown kind renders, line breaks aside, as its children
\* render
C18_UnknownKindUnwrapped ==
  \A kind \in UnknownKinds :
    parsedContent = OneBlock(Block(kind, <<HelloParagraph>>)) =>
      WithoutBreaks(html) = WithoutBreaks(convertNodeToHtml(HelloParagraph))

\* C19: the HTML of a doc with an image has an img element whose src
\* attribute is the src of the image
C19_ImageRendered ==
  \A block \in RenderBlocks :
    block.type = "image" /\ parsedContent = OneBlock(block) =>
      \E i \in DOMAIN html :
        /\ Has(html[i], "void") /\ html[i].void = "img"
        /\ ("src=\"" \o block.attrs.src \o "\"") \in Range(html[i].attrs)

(***************************************************************************)
(* The preview of a page card (getPreviewText of PageCard.tsx).  A text is  *)
(* the sequence of its characters.                                          *)
(***************************************************************************)
\* text.slice(0, 150) + (text.length > 150 ? '...' : '')
PreviewLen == 150
Ellipsis == <<".", ".", ".">>

\* parts.join(' ')
RECURSIVE JoinedBySpace(_)
JoinedBySpace(parts) ==
  IF parts = <<>> THEN <<>>
  ELSE IF Len(parts) = 1 THEN parts[1]
  ELSE parts[1] \o <<" ">> \o JoinedBySpace(Tail(parts))

RECURSIVE extractText(_)
extractText(nodes) ==
  JoinedBySpace([i \in 1..Len(nodes) |->
                   LET node == nodes[i]
                   IN  IF node.type = "text"
                       THEN IF Has(node, "text") THEN node.text ELSE <<>>
                       ELSE IF Has(node, "content") THEN extractText(node.content)
                       ELSE <<>>])

getPreviewText(content) ==
  IF ~TruthyContent(content) \/ content.kind # "object" \/ ~Has(content.tree, "content")
  THEN <<>>
  ELSE LET text == extractText(content.tree.content)
       IN  IF Len(text) > PreviewLen THEN SubSeq(text, 1, PreviewLen) \o Ellipsis
           ELSE text

\* text.split(' ').length
SplitLength(text) == Cardinality({i \in DOMAIN text : text[i] = " "}) + 1

\* calculateReadTime: the minutes of `${minutes} min read`
WordsPerMinute == 200
calculateReadTime(content) ==
  LET words == SplitLength(getPreviewText(content))
  IN  (words + WordsPerMinute - 1) \div WordsPerMinute

\* the contents previewed: docs of up to MaxBlocks blocks with texts of a few
\* characters, of about PreviewLen characters and of about WordsPerMinute
\* words of one letter
Letters(n) == [i \in 1..n |-> "x"]
Words(n) == [i \in 1..(2 * n - 1) |-> IF i % 2 = 1 THEN "x" ELSE " "]
TextOf(n) == Block("paragraph", <<TextNode(Letters(n))>>)
PreviewBlocks ==
  {TextOf(n) : n \in {1, 2, PreviewLen - 2, PreviewLen - 1, PreviewLen, PreviewLen + 1}}
    \cup {Block("paragraph", <<TextNode(Words(n))>>) :
             n \in {WordsPerMinute, WordsPerMinute + 1}}
    \cup { Leaf("paragraph"),
           LeafWith("image", [src |-> ImageUrl, alt |-> Null]),
           Block("paragraph", <<TextNode(Letters(1)), Leaf("hardBreak"),
                                TextNode(Letters(2))>>),
           Block("bulletList", <<Block("listItem", <<TextOf(1)>>),
                                 Block("listItem", <<TextOf(2)>>)>>) }
PreviewInputs ==
  {ObjectContent(Doc(content)) :
     content \in UNION {[1..n -> PreviewBlocks] : n \in 0..MaxBlocks}}
    \cup {StringContent(stringify(Doc(<<HelloParagraph>>))), ScalarContent("null", Null)}

\* a page card is rendered, once in a behaviour: getPreviewText(page.content)
\* and calculateReadTime(page.content)
GetPreviewText ==
  /\ cardContent = Null
  /\ \E content \in PreviewInputs :
       /\ cardContent' = content
       /\ previewText' = getPreviewText(content)
       /\ readTime' = calculateReadTime(content)
  /\ UNCHANGED <<hookVars, extractVars, panelVars, viewVars, uiVars, editorVars, pageVars,
                 renderVars>>

NextPreview == GetPreviewText

SpecPreview == Init /\ [][NextPreview]_vars

\* C20: the preview of a tree is the payloads of its text nodes in depth-first
\* order with one space between consecutive payloads, cut to PreviewLen
\* characters and followed by the ellipsis iff the uncut text is longer
C20_PreviewText ==
  cardContent # Null /\ cardContent.kind = "object" =>
    LET RECURSIVE payloads(_)
        payloads(nodes) ==
          IF nodes = <<>> THEN <<>>
          ELSE LET node == Head(nodes)
               IN  (IF node.type = "text" THEN <<node.text>>
                    ELSE IF Has(node, "content") THEN payloads(node.content)
                    ELSE <<>>) \o payloads(Tail(nodes))
        RECURSIVE spaced(_)
        spaced(texts) ==
          IF texts = <<>> THEN <<>>
          ELSE IF Len(texts) = 1 THEN texts[1]
          ELSE texts[1] \o <<" ">> \o spaced(Tail(texts))
        text == spaced(payloads(cardContent.tree.content))
    IN  previewText = IF Len(text) > PreviewLen
                      THEN SubSeq(text, 1, PreviewLen) \o Ellipsis
                      ELSE text

\* C21: the read time of a tree is max(1, ceiling(W / 200)) minutes, W being
\* the number of words of the text nodes of the tree
C21_ReadTime ==
  cardContent # Null /\ cardContent.kind = "object" =>
    LET wordsOf(text) ==
          Cardinality({i \in DOMAIN text :
                         text[i] # " " /\ (i = 1 \/ text[i - 1] = " ")})
        RECURSIVE wordCount(_)
        wordCount(nodes) ==
          IF nodes = <<>> THEN 0
          ELSE LET node == Head(nodes)
               IN  (IF node.type = "text" THEN wordsOf(node.text)
                    ELSE IF Has(node, "content") THEN wordCount(node.content)
                    ELSE 0) + wordCount(Tail(nodes))
        W == wordCount(cardContent.tree.content)
        ceiling == (W + WordsPerMinute - 1) \div WordsPerMinute
    IN  readTime = IF ceiling > 1 THEN ceiling ELSE 1

\* C24: whenever no save is in flight, the object of every image that the
\* stored page content references is in storage unless it never passed
\* through deleteObject
C24_StoredImagesExist ==
  saves = {} =>
    \A node \in Range(Descendants(stored.json)) :
      node.type = "image" /\ extractStoragePathFromUrl(node.src) # NoPath =>
        ~ /\ extractStoragePathFromUrl(node.src) \in deleteLog
          /\ extractStoragePathFromUrl(node.src) \notin objects

\* C25: when no save is in flight and hasUnsavedChanges is false, the content
\* of the editor is the content stored by the last successful write
C25_UnsavedChangesTracked ==
  saves = {} /\ ~hasUnsavedChanges => stored = JSONStringify(doc)

\* C27: while a manual save is in flight saveStatus is 'saving'
C27_SavingWhileInFlight ==
  (\E s \in saves : s.kind = "manual") => saveStatus = "saving"

(***************************************************************************)
(* The list of pages (usePages.tsx).  The effect on [user, searchTerm]     *)
(* runs after every change of either: the cleanup of its previous run      *)
(* unsubscribes, then a search is started or a subscription is made.  A    *)
(* list of pages is held as the query it is the result of: the uid and     *)
(* the search term ("" for the subscription to all pages of the user).     *)
(***************************************************************************)
Users == {1, 2}
Terms == {"a", "b"}
ResultOf(uid, term) == [uid |-> uid, term |-> term]

\* the cleanup of the previous run and the body of the effect
PagesEffect(uid, term) ==
  IF uid = NoUser
  THEN /\ pages' = NoPages
       /\ listLoading' = FALSE
       /\ subscriptions' = {}
       /\ searches' = searches
  ELSE IF term # ""
  THEN /\ searches' = searches \cup {ResultOf(uid, term)}
       /\ subscriptions' = {}
       /\ UNCHANGED <<pages, listLoading>>
  ELSE /\ subscriptions' = {[uid |-> uid, delivered |-> FALSE]}
       /\ UNCHANGED <<pages, listLoading, searches>>

\* a user signs in or out
AuthStateChanged ==
  /\ \E uid \in Users \cup {NoUser} :
       /\ uid # user
       /\ uid = NoUser \/ user = NoUser
       /\ user' = uid
       /\ PagesEffect(uid, searchTerm)
  /\ searchError' = FALSE
  /\ UNCHANGED <<searchTerm, toolbarVars, hookVars, extractVars, panelVars, viewVars, editorVars,
                 pageVars, renderVars, previewVars>>

\* setSearchTerm(term)
SetSearchTerm ==
  /\ \E term \in Terms \cup {""} :
       /\ term # searchTerm
       /\ searchTerm' = term
       /\ PagesEffect(user, term)
  /\ searchError' = FALSE
  /\ UNCHANGED <<user, toolbarVars, hookVars, extractVars, panelVars, viewVars, editorVars,
                 pageVars, renderVars, previewVars>>

\* searchPages resolves: .then(setPages), .finally(() => setLoading(false))
SearchPagesResolved ==
  /\ \E s \in searches :
       /\ searches' = searches \ {s}
       /\ pages' = s
  /\ listLoading' = FALSE
  /\ UNCHANGED <<user, searchTerm, subscriptions, searchError, toolbarVars, hookVars, extractVars,
                 panelVars, viewVars, editorVars, pageVars, renderVars, previewVars>>

\* searchPages rejects: the toast, then setLoading(false)
SearchPagesRejected ==
  /\ \E s \in searches : searches' = searches \ {s}
  /\ searchError' = TRUE
  /\ listLoading' = FALSE
  /\ UNCHANGED <<user, searchTerm, pages, subscriptions, toolbarVars, hookVars, extractVars,
                 panelVars, viewVars, editorVars, pageVars, renderVars, previewVars>>

\* onSnapshot calls back: setPages(pagesData), setLoading(false)
OnSnapshot ==
  /\ \E sub \in subscriptions :
       /\ pages' = ResultOf(sub.uid, "")
       /\ subscriptions' = (subscriptions \ {sub}) \cup {[sub EXCEPT !.delivered = TRUE]}
  /\ listLoading' = FALSE
  /\ UNCHANGED <<user, searchTerm, searches, searchError, toolbarVars, hookVars, extractVars,
                 panelVars, viewVars, editorVars, pageVars, renderVars, previewVars>>

NextPages ==
  \/ AuthStateChanged
  \/ SetSearchTerm
  \/ SearchPagesResolved
  \/ SearchPagesRejected
  \/ OnSnapshot

SpecPages == Init /\ [][NextPages]_vars

\* C28: when no search is in flight, none has failed and the subscription, if
\* there is one, has delivered, the list is the result for the current user
\* and search term, empty without a user; at most one subscription is live
C28_PagesOfCurrentQuery ==
  /\ Cardinality(subscriptions) <= 1
  /\ searches = {} /\ ~searchError /\ (\A sub \in subscriptions : sub.delivered) =>
       pages = IF user = NoUser THEN NoPages ELSE ResultOf(user, searchTerm)

(***************************************************************************)
(* Overlapping pastes: SpecPaste is the paste handler and the settling of  *)
(* its uploads alone: up to MaxOverlap pastes, their uploads overlapping.   *)
(***************************************************************************)
MaxOverlap == 3

PasteAgain == Paste(MaxOverlap)

NextPaste ==
  \/ PasteAgain
  \/ UploadBytesDone
  \/ GetDownloadURLDone

SpecPaste == Init /\ [][NextPaste]_vars

\* C29: isPasting is true exactly while an upload of a pasted image is in
\* flight, and pendingUploads holds exactly the uploads in flight
C29_UploadBookkeeping ==
  /\ isPasting = (uploads # {})
  /\ pendingUploads = {u.id : u \in uploads}

(***************************************************************************)
(* The image button of the toolbar (handleImageUpload of Editor.tsx and of *)
(* PageEditor.fixed.tsx).  A file is a record of its MIME type, as the     *)
(* sequence of its tokens, and its size in bytes.  The button that opens   *)
(* the file dialog is disabled while uploading || isPasting.               *)
(***************************************************************************)
MaxSelected == 3
MaxFileSize == 5 * 1024 * 1024
ImagePrefix == <<"image", "/">>
FileTypes == {<<"image", "/", "png">>, <<"text", "/", "plain">>, <<"image">>, <<>>}
FileSizes == {1, MaxFileSize, MaxFileSize + 1}
Files == [type : FileTypes, size : FileSizes]

\* the object uploadImage writes for the n-th selected file
ToolbarObject(n) == 20 + n

\* String.prototype.startsWith
StartsWith(s, prefix) ==
  Len(s) >= Len(prefix) /\ SubSeq(s, 1, Len(prefix)) = prefix

TooLargeMut(file) == FALSE

\* file.size > 5 * 1024 * 1024
TooLarge(file) == file.size > MaxFileSize

\* toast({title: ...})
Toast(title) == toasts' = Append(toasts, title)

\* the handler up to its first await, or to its return
handleImageUpload(file) ==
  IF file = NoFile \/ user = NoUser
  THEN UNCHANGED <<uploading, toolbarUpload, toasts, uploadRequests>>
  ELSE IF ~StartsWith(file.type, ImagePrefix)
  THEN /\ Toast("Invalid file type")
       /\ UNCHANGED <<uploading, toolbarUpload, uploadRequests>>
  ELSE IF TooLarge(file)
  THEN /\ Toast("File too large")
       /\ UNCHANGED <<uploading, toolbarUpload, uploadRequests>>
  ELSE /\ uploading' = TRUE
       /\ toolbarUpload' = [pc |-> "bytes", id |-> ToolbarObject(nSelected + 1)]
       /\ uploadRequests' = uploadRequests + 1
       /\ toasts' = toasts

\* the user picks a file in the dialog of the image button: onChange
SelectFile ==
  /\ ~(uploading \/ isPasting)
  /\ nSelected < MaxSelected
  /\ nSelected' = nSelected + 1
  /\ \E file \in Files \cup {NoFile} :
       /\ selectedFile' = file
       /\ handleImageUpload(file)
  /\ UNCHANGED <<hookVars, extractVars, panelVars, viewVars, pagesVars, editorVars,
                 pageVars, renderVars, previewVars>>

\* finally: setUploading(false), fileInputRef.current.value = ''
ToolbarFinally ==
  /\ uploading' = FALSE
  /\ selectedFile' = NoFile
  /\ toolbarUpload' = NoToolbarUpload

\* catch: uploadImage has thrown 'Failed to upload image'
ToolbarCatch ==
  /\ Toast("Error uploading image")
  /\ ToolbarFinally
  /\ UNCHANGED <<doc, pageContent, hasUnsavedChanges, saveStatus>>

\* uploadBytes of uploadImage settles
ToolbarUploadBytesDone ==
  /\ toolbarUpload.pc = "bytes"
  /\ \E ok \in BOOLEAN :
       IF ok
       THEN /\ objects' = objects \cup {toolbarUpload.id}
            /\ toolbarUpload' = [toolbarUpload EXCEPT !.pc = "url"]
            /\ UNCHANGED <<uploading, selectedFile, toasts, doc, pageContent,
                           hasUnsavedChanges, saveStatus>>
       ELSE /\ objects' = objects
            /\ ToolbarCatch
  /\ UNCHANGED <<nSelected, uploadRequests, previousImages, saves, writeQueue, nSaves,
                 saving, stored, deleteLog, lastTriggered, nEdits, saveHistory,
                 debounceVars, pasteVars, statusTimers, failures, succeeded,
                 extractVars, panelVars, viewVars, pagesVars, pageVars, renderVars,
                 previewVars>>

\* getDownloadURL of uploadImage settles; with the URL,
\* editor.chain().focus().setImage({src: url}).run() inserts the image at the
\* selection and the editor's onUpdate runs
ToolbarGetDownloadURLDone ==
  /\ toolbarUpload.pc = "url"
  /\ \E ok \in BOOLEAN, pos \in 0..Len(doc) :
       IF ok
       THEN /\ doc' = InsertAt(doc, pos, Linked(DownloadUrl(toolbarUpload.id)))
            /\ pageContent' = doc'
            /\ hasUnsavedChanges' = TRUE
            /\ saveStatus' = "idle"
            /\ Toast("Image uploaded")
            /\ ToolbarFinally
       ELSE ToolbarCatch
  /\ UNCHANGED <<nSelected, uploadRequests, objects, previousImages, saves, writeQueue,
                 nSaves, saving, stored, deleteLog, lastTriggered, nEdits, saveHistory,
                 debounceVars, pasteVars, statusTimers, failures, succeeded,
                 extractVars, panelVars, viewVars, pagesVars, pageVars, renderVars,
                 previewVars>>

NextToolbar ==
  \/ AuthStateChanged
  \/ SelectFile
  \/ ToolbarUploadBytesDone
  \/ ToolbarGetDownloadURLDone
  \/ EditorTypeParagraph

SpecToolbar == Init /\ [][NextToolbar]_vars

\* C30: a step of the handler for a file that is not an image or is larger
\* than 5 MiB calls no upload and leaves the document and the flag alone; a
\* step in which the handler ends has the flag false, and one in which it
\* ends with the upload failed leaves the document alone
C30_ToolbarUpload ==
  [][LET selected == nSelected' # nSelected
         rejected == /\ selected
                     /\ \/ ~StartsWith(selectedFile'.type, ImagePrefix)
                        \/ selectedFile'.size > MaxFileSize
         ended    == \/ selected /\ toolbarUpload' = NoToolbarUpload
                     \/ toolbarUpload # NoToolbarUpload /\ toolbarUpload' = NoToolbarUpload
         failed   == /\ ended
                     /\ toasts' # toasts
                     /\ toasts'[Len(toasts')] = "Error uploading image"
     IN  /\ rejected => /\ uploadRequests' = uploadRequests
                        /\ toolbarUpload' = NoToolbarUpload
                        /\ doc' = doc /\ objects' = objects
         /\ ended => ~uploading'
         /\ failed => doc' = doc
         /\ doc' # doc /\ toasts' # toasts =>
              toasts'[Len(toasts')] = "Image uploaded"]_vars

\* a file larger than 5 MiB has been rejected, an upload has failed and an
\* upload has succeeded: the image is in the document and the flag is false
C30_Witness ==
  /\ toasts = <<"File too large", "Error uploading image", "Image uploaded">>
  /\ uploadRequests = 2
  /\ \E i \in 1..Len(doc) : doc[i] = Linked(DownloadUrl(ToolbarObject(3)))
  /\ ~uploading

====
